---- MODULE Spec2Model ----
(***************************************************************************)
(* Business Discovery Engine v6.1: the round-robin orchestrator run(),     *)
(* its job control (pause / stop / resume files, emergency save on         *)
(* signals), the checkpoint file and the batched sheet sink.               *)
(*                                                                         *)
(* One action is one synchronous segment of run() between two awaits; the  *)
(* control files and the signals belong to the environment.                *)
(***************************************************************************)
EXTENDS Integers, Sequences, FiniteSets, TLC

\* ------------------------------------------------------------------ bounds
MaxFaults == 2        \* events after the start command: resume, flags, signals, failures
ChunkSize == 2        \* C.chunkSize, scaled down
MaxPerCat == 3        \* C.maxPerCat, scaled down
BatchSize == 2        \* C.batchSize, scaled down

\* ------------------------------------------------------------------ world
\* STATES (two regions, one city each), CATS (two categories), sources (one).
StateKeys == <<"AZ", "NV">>

STATES ==
  [AZ |-> [name |-> "Arizona", tab |-> "Arizona", cities |-> <<"Phoenix">>],
   NV |-> [name |-> "Nevada", tab |-> "Nevada", cities |-> <<"Reno">>]]

CATS == <<"plumber", "dentist">>

sources == <<"yp">>

\* A raw record as a source adapter returns it.
Rec(n, st, w) ==
  [company_name |-> n, city |-> STATES[st].cities[1], state |-> STATES[st].name,
   website |-> w, stateKey |-> "", enriched |-> FALSE]

\* What the directories list: the answer of a source adapter for one
\* (category, work unit).  "ACME!" is a second sighting of "Acme" and the
\* dentist/NV unit sights "Dent" again.
Listing(cat, wu) ==
  CASE cat = "plumber" /\ wu.stKey = "AZ" ->
         << Rec("Acme", "AZ", ""), Rec("Bolt", "AZ", "bolt.com"), Rec("Cafe", "AZ", "cafe.com") >>
    [] cat = "plumber" /\ wu.stKey = "NV" ->
         << Rec("Dent", "NV", "dent.com") >>
    [] cat = "dentist" /\ wu.stKey = "AZ" ->
         << Rec("ACME!", "AZ", ""), Rec("Eats", "AZ", ""), Rec("Fixit", "AZ", "") >>
    [] OTHER ->
         << Rec("Dent", "NV", "dent.com") >>

\* What the two search backends find for a business without a website
\* ("" when the result page holds no acceptable link).
DuckDuckGo(name) == IF name = "Fixit" THEN "fixit.com" ELSE ""
Google(name) == IF name = "Eats" THEN "eats.com" ELSE ""

\* ---------------------------------------------------------------- helpers
\* name.toLowerCase().replace(/[^a-z0-9]/g, '')
NormAlnum(n) ==
  CASE n = "Acme" -> "acme" [] n = "ACME!" -> "acme" [] n = "Bolt" -> "bolt"
    [] n = "Cafe" -> "cafe" [] n = "Dent" -> "dent" [] n = "Eats" -> "eats"
    [] n = "Fixit" -> "fixit"
    [] n = "Sunrise Bakery LLC" -> "sunrisebakeryllc" [] n = "Sunrise Bakery" -> "sunrisebakery"
    [] n = "Grand Canyon Plumbing" -> "grandcanyonplumbing"
    [] n = "Grand Canyon Plumbing #2" -> "grandcanyonplumbing2"
    [] n = "Grand Canyon Plumbers" -> "grandcanyonplumbers"
    [] n = "Grand Canyon Plungers" -> "grandcanyonplungers"
    [] n = "Quail Motors" -> "quailmotors"
    [] n = "Zenith Dental" -> "zenithdental" [] OTHER -> ""

\* s.toLowerCase().replace(/[^a-z]/g, '')
NormAlpha(s) ==
  CASE s = "Phoenix" -> "phoenix" [] s = "PHOENIX" -> "phoenix" [] s = "Reno" -> "reno"
    [] s = "Tucson" -> "tucson" [] s = "Mesa" -> "mesa"
    [] s = "Arizona" -> "arizona" [] s = "Nevada" -> "nevada" [] OTHER -> ""

dedupKey(biz) ==
  << NormAlnum(biz.company_name), NormAlpha(biz.city), NormAlpha(biz.state) >>

Range(s) == { s[x] : x \in DOMAIN s }

\* shuffle(arr): every permutation of arr is a possible outcome.
shuffle(arr) ==
  { p \in [DOMAIN arr -> Range(arr)] :
      \A x, y \in DOMAIN arr : x # y => p[x] # p[y] }

\* The work units of one category, in the order the nested loops push them.
RECURSIVE Concat(_)
Concat(ss) == IF ss = <<>> THEN <<>> ELSE Head(ss) \o Concat(Tail(ss))

UnitsOf(tStates) ==
  Concat([a \in DOMAIN tStates |->
    Concat([b \in DOMAIN sources |->
      [c \in DOMAIN STATES[tStates[a]].cities |->
         [stKey |-> tStates[a], src |-> sources[b],
          city |-> STATES[tStates[a]].cities[c]]]])])

ZeroCounts == [c \in Range(CATS) |-> 0]

\* toRows(bizList) for one business with at most one contact: one row.
toRows(b) == << [key |-> dedupKey(b), name |-> b.company_name, enriched |-> b.enriched] >>

RECURSIVE SumOver(_, _)
SumOver(f, S) ==
  IF S = {} THEN 0
  ELSE LET x == CHOOSE y \in S : TRUE IN f[x] + SumOver(f, S \ {x})

\* ---------------------------------------------------------------- state
VARIABLES
  stateFile,      \* C.stateFile: <<>> when absent, else << checkpoint >>
  stopFile,       \* C.stopFile exists
  pauseFile,      \* C.pauseFile exists
  sink,           \* rows appended to the spreadsheet, in order, with their tab
  pc,             \* position of the engine process ("idle": no process)
  targetStates,   \* run(): targetStates
  allBiz,         \* run(): allBiz
  globalSeen,     \* run(): globalSeen
  catCounts,      \* run(): catCounts
  catWorkIdx,     \* run(): catWorkIdx
  runStateSet,    \* _runState is non-null (it aliases allBiz, catCounts, catWorkIdx)
  catWork,        \* run(): catWork
  catOrder,       \* run(): catOrder
  activeCats,     \* the categories of the current round still to take their turn
  cat,            \* the category whose turn it is
  i,              \* discovery loop index
  chunkBiz,       \* run(): chunkBiz, as positions in allBiz
  needWebsite,    \* run(): needWebsite, as positions in allBiz
  w,              \* position in needWebsite
  withSites,      \* run(): withSites, as positions in allBiz
  noSites,        \* run(): noSites, as positions in allBiz
  n,              \* position in noSites
  e,              \* enrichment loop index (1-based)
  k,              \* position in targetStates of a flush loop
  rowBuffer,      \* rowBuffer
  appendTab,      \* tab of the append in flight
  ret,            \* where the append in flight returns to
  flushRet,       \* where the flush loop in progress returns to
  done,           \* the round loop ended with no active category
  \* ---- observation only (never read by the engine)
  faults,         \* environment events so far
  runs,           \* processes started so far
  startedSt,      \* the --state of the start command
  fresh,          \* the current run loaded no checkpoint
  submitted,      \* per category, the work units handed to an adapter, over all runs
  enrLog,         \* positions whose enrichment began in the current chunk
  flushFailed,    \* an append failed since the current chunk's discovery ended
  mark,           \* Len(sink) when the current chunk began
  sawDup,         \* the global dedup dropped a sighting in this run
  lastSave        \* what wrote the state file last

disk == << stateFile, stopFile, pauseFile >>
proc == << pc, targetStates, allBiz, globalSeen, catCounts, catWorkIdx, runStateSet,
           catWork, catOrder, activeCats, cat, i, chunkBiz, needWebsite, w,
           withSites, noSites, n, e, k, rowBuffer, appendTab, ret, flushRet, done >>
hist == << faults, runs, startedSt, fresh, submitted, enrLog, flushFailed, mark, sawDup,
          lastSave >>
vars == << disk, sink, proc, hist >>

\* The state of the components that are modelled on their own.
VARIABLES
  yelpConsecutiveFails,  \* _yelpConsecutiveFails
  yelpLog,               \* observation: what each discoverYelpSingle call did
  list,                  \* dedupe(list): the records handed in
  uniq,                  \* dedupe(list): uniq, << >> before the call
  allContacts,           \* enrichBusiness(): allContacts
  allNamesNoEmail,       \* enrichBusiness(): allNamesNoEmail
  pattern,               \* enrichBusiness(): pattern ("" for null)
  mxCache,               \* mxCache
  m,                     \* position of the MX loop in allContacts
  epc,                   \* position in the tail of enrichBusiness()
  srcFails,              \* observation: per uncounted adapter, failed calls in a row
  rejected,              \* observation: keys of the rows of rejected appends
  chunkSize,             \* C.chunkSize, as set by CHUNK_SIZE or --chunk
  site,                  \* the pages of the site being enriched, homepage first
  pg,                    \* enrichBusiness(): position of the subpage loop
  companyInfo,           \* enrichBusiness(): companyInfo
  fetched                \* observation: the pages fetchUrl was called for

yelp == << yelpConsecutiveFails, yelpLog, srcFails >>
resolution == << list, uniq >>
enrich == << allContacts, allNamesNoEmail, pattern, mxCache, m, epc >>
delivery == << rejected >>
config == << chunkSize >>
pages == << site, pg, companyInfo, fetched >>
aux == << yelp, resolution, enrich, delivery, config, pages >>
allvars == << vars, aux >>

\* The adapters without a counter of their own, none called yet.
NoFails == [src \in {"yp", "bbb", "gmaps"} |-> 0]

\* No site is being enriched.
NoSite == site = <<>> /\ pg = 0 /\ companyInfo = <<>> /\ fetched = <<>>

\* The components before any call.
AuxIdle ==
  /\ yelpConsecutiveFails = 0 /\ yelpLog = <<>> /\ srcFails = NoFails
  /\ list = <<>> /\ uniq = <<>>
  /\ allContacts = <<>> /\ allNamesNoEmail = <<>> /\ pattern = ""
  /\ mxCache = {} /\ m = 0 /\ epc = "idle"
  /\ rejected = {} /\ chunkSize = ChunkSize /\ NoSite

\* The suspension points: the process is inside an await.
Suspended ==
  pc \in { "init", "pausedTurn", "getPage", "discCall", "webDDG", "webGoogle",
           "pageClose", "append", "pausedEnr", "enrCall", "closing" }

Running == pc # "idle"

\* No engine process, no control file, an empty sheet.
Idle ==
  /\ stopFile = FALSE /\ pauseFile = FALSE
  /\ sink = <<>>
  /\ pc = "idle"
  /\ targetStates = <<>> /\ allBiz = <<>> /\ globalSeen = {}
  /\ catCounts = ZeroCounts /\ catWorkIdx = ZeroCounts
  /\ runStateSet = FALSE
  /\ catWork = [c \in Range(CATS) |-> <<>>] /\ catOrder = <<>>
  /\ activeCats = <<>> /\ cat = "" /\ i = 0
  /\ chunkBiz = <<>> /\ needWebsite = <<>> /\ w = 0
  /\ withSites = <<>> /\ noSites = <<>> /\ n = 0 /\ e = 0 /\ k = 0
  /\ rowBuffer = <<>> /\ appendTab = "" /\ ret = "" /\ flushRet = ""
  /\ done = FALSE
  /\ faults = 0 /\ runs = 0 /\ startedSt = "" /\ fresh = FALSE
  /\ submitted = [c \in Range(CATS) |-> <<>>]
  /\ enrLog = <<>> /\ flushFailed = FALSE /\ mark = 0 /\ sawDup = FALSE
  /\ lastSave = ""

\* A state file whose content JSON.parse rejects (a torn or damaged write).
Unparsable == << [parses |-> FALSE] >>

\* The state file is absent, or was left damaged by an earlier job.
Init ==
  /\ stateFile \in { <<>>, Unparsable }
  /\ Idle
  /\ AuxIdle

\* The memory of a process that has exited.
ProcessGone ==
  /\ pc' = "idle"
  /\ targetStates' = <<>> /\ allBiz' = <<>> /\ globalSeen' = {}
  /\ catCounts' = ZeroCounts /\ catWorkIdx' = ZeroCounts
  /\ runStateSet' = FALSE
  /\ catWork' = [c \in Range(CATS) |-> <<>>] /\ catOrder' = <<>>
  /\ activeCats' = <<>> /\ cat' = "" /\ i' = 0
  /\ chunkBiz' = <<>> /\ needWebsite' = <<>> /\ w' = 0
  /\ withSites' = <<>> /\ noSites' = <<>> /\ n' = 0 /\ e' = 0 /\ k' = 0
  /\ rowBuffer' = <<>> /\ appendTab' = "" /\ ret' = "" /\ flushRet' = ""
  /\ done' = FALSE
  /\ enrLog' = <<>> /\ flushFailed' = FALSE /\ mark' = 0 /\ sawDup' = FALSE

\* ---------------------------------------------------------- job control
\* The checkpoint document of saveState({ phase: 1, allBiz, catCounts, catWorkIdx }).
Checkpoint(biz, counts, idx) ==
  [phase |-> 1, allBiz |-> biz, catCounts |-> counts, catWorkIdx |-> idx]

saveState(s) == << s >>

\* loadState(): null when the file is absent and, through the catch, when
\* it does not parse.
loadState == IF stateFile = Unparsable THEN <<>> ELSE stateFile

\* Variant: the seen-set is not rebuilt on resume.
RebuildSeen_mut(biz) == {}

\* run(), "LOAD STATE OR START FRESH": the seen-set rebuilt from the checkpoint.
RebuildSeen(biz) == { dedupKey(b) : b \in Range(biz) }

\* run() from its entry to the first await (initSheets).
RunEntry(st) ==
  LET saved == loadState IN
  /\ targetStates' = IF st = "ALL" THEN StateKeys ELSE << st >>
  /\ IF saved # <<>>
       THEN /\ allBiz' = saved[1].allBiz
            /\ catCounts' = saved[1].catCounts
            /\ catWorkIdx' = saved[1].catWorkIdx
            /\ globalSeen' = RebuildSeen(saved[1].allBiz)
       ELSE /\ allBiz' = <<>>
            /\ catCounts' = ZeroCounts
            /\ catWorkIdx' = ZeroCounts
            /\ globalSeen' = {}
  /\ runStateSet' = TRUE
  /\ stopFile' = FALSE /\ pauseFile' = FALSE
  /\ pc' = "init"
  /\ fresh' = (saved = <<>>)
  /\ runs' = runs + 1
  /\ UNCHANGED << stateFile, sink, catWork, catOrder, activeCats, cat, i, chunkBiz,
                  needWebsite, w, withSites, noSites, n, e, k, rowBuffer, appendTab,
                  ret, flushRet, done, submitted, lastSave, enrLog, flushFailed, mark,
                  sawDup >>

\* main(), case 'start': node engine.js start --state st
Start(st) ==
  /\ pc = "idle" /\ runs = 0
  /\ startedSt' = st
  /\ UNCHANGED faults
  /\ RunEntry(st)
  /\ UNCHANGED aux

\* main(), case 'resume': the region the resumed run is given.
ResumeSt(s) == IF "st" \in DOMAIN s THEN s.st ELSE "ALL"

\* main(), case 'resume': node engine.js resume
Resume ==
  /\ pc = "idle" /\ runs > 0
  /\ faults < MaxFaults
  /\ faults' = faults + 1
  /\ IF loadState # <<>>
       THEN /\ RunEntry(ResumeSt(loadState[1]))
            /\ UNCHANGED startedSt
       ELSE /\ stopFile' = FALSE /\ pauseFile' = FALSE
            /\ UNCHANGED << stateFile, sink, proc, runs, startedSt, fresh, submitted,
                            enrLog, flushFailed, mark, sawDup, lastSave >>
  /\ UNCHANGED aux

\* run(): sheets initialised, work queues and category order built and shuffled.
Build ==
  /\ pc = "init"
  /\ catWork' \in [Range(CATS) -> shuffle(UnitsOf(targetStates))]
  /\ catOrder' \in shuffle(CATS)
  /\ pc' = "round"
  /\ UNCHANGED << disk, sink, targetStates, allBiz, globalSeen, catCounts, catWorkIdx,
                  runStateSet, activeCats, cat, i, chunkBiz, needWebsite, w, withSites,
                  noSites, n, e, k, rowBuffer, appendTab, ret, flushRet, done, hist >>
  /\ UNCHANGED aux

\* Variant: the filter forgets the quota.
IsActive_mut(c) == catWorkIdx[c] < Len(catWork[c])

\* run(): the activeCats filter.
IsActive(c) == catCounts[c] < MaxPerCat /\ catWorkIdx[c] < Len(catWork[c])

\* run(): head of while (true).
Round ==
  /\ pc = "round"
  /\ LET active == SelectSeq(catOrder, IsActive) IN
       IF active = <<>>
         THEN pc' = "closing" /\ done' = TRUE /\ UNCHANGED activeCats
         ELSE pc' = "turn" /\ activeCats' = active /\ UNCHANGED done
  /\ UNCHANGED << disk, sink, targetStates, allBiz, globalSeen, catCounts, catWorkIdx,
                  runStateSet, catWork, catOrder, cat, i, chunkBiz, needWebsite, w,
                  withSites, noSites, n, e, k, rowBuffer, appendTab, ret, flushRet, hist >>
  /\ UNCHANGED aux

\* run(): head of for (const cat of activeCats): stop check, waitPause.
Turn ==
  /\ pc = "turn"
  /\ IF activeCats = <<>>
       THEN pc' = "round" /\ UNCHANGED << stateFile, activeCats, cat, lastSave >>
       ELSE /\ cat' = Head(activeCats)
            /\ activeCats' = Tail(activeCats)
            /\ IF stopFile
                 THEN /\ stateFile' = saveState(Checkpoint(allBiz, catCounts, catWorkIdx))
                      /\ lastSave' = "stop"
                      /\ pc' = "closing"
                 ELSE /\ UNCHANGED << stateFile, lastSave >>
                      /\ pc' = IF pauseFile THEN "pausedTurn" ELSE "getPage"
  /\ UNCHANGED << stopFile, pauseFile, sink, targetStates, allBiz, globalSeen, catCounts,
                  catWorkIdx, runStateSet, catWork, catOrder, i, chunkBiz, needWebsite, w,
                  withSites, noSites, n, e, k, rowBuffer, appendTab, ret, flushRet, done,
                  faults, runs, startedSt, fresh, submitted, enrLog, flushFailed, mark, sawDup >>
  /\ UNCHANGED aux

\* waitPause(): while (isPaused() && !isStopped()) await sleep(2000)
waitPause == ~(pauseFile /\ ~stopFile)

PausedTurn ==
  /\ pc = "pausedTurn"
  /\ waitPause
  /\ pc' = "getPage"
  /\ UNCHANGED << disk, sink, targetStates, allBiz, globalSeen, catCounts, catWorkIdx,
                  runStateSet, catWork, catOrder, activeCats, cat, i, chunkBiz,
                  needWebsite, w, withSites, noSites, n, e, k, rowBuffer, appendTab, ret,
                  flushRet, done, hist >>
  /\ UNCHANGED aux

\* run(), STEP 1: chunkBiz, startIdx, getPage().
GetPage ==
  /\ pc = "getPage"
  /\ chunkBiz' = <<>>
  /\ i' = catWorkIdx[cat]
  /\ pc' = "disc"
  /\ enrLog' = <<>> /\ flushFailed' = FALSE /\ mark' = Len(sink)
  /\ UNCHANGED << sawDup, disk, sink, targetStates, allBiz, globalSeen, catCounts, catWorkIdx,
                  runStateSet, catWork, catOrder, activeCats, cat, needWebsite, w,
                  withSites, noSites, n, e, k, rowBuffer, appendTab, ret, flushRet, done,
                  faults, runs, startedSt, fresh, submitted, lastSave >>
  /\ UNCHANGED aux

\* Variant: the cursor skips a unit.
NextCursor_mut(x) == x + 2

\* run(): the cursor written when a work unit is taken.
NextCursor(x) == x + 1

\* Variant: a unit is still taken when the chunk is full.
MoreUnits_mut(idx, chunk) == idx < Len(catWork[cat]) /\ Len(chunk) <= chunkSize

\* run(), STEP 1: i < catWork[cat].length && chunkBiz.length < chunkSize
MoreUnits(idx, chunk) == idx < Len(catWork[cat]) /\ Len(chunk) < chunkSize

\* run(), STEP 1: head of the discovery loop up to the adapter call.
Disc ==
  /\ pc = "disc"
  /\ IF MoreUnits(i, chunkBiz)
       THEN IF stopFile
              THEN /\ catWorkIdx' = [catWorkIdx EXCEPT ![cat] = i]
                   /\ pc' = "web"
                   /\ UNCHANGED submitted
              ELSE /\ catWorkIdx' = [catWorkIdx EXCEPT ![cat] = NextCursor(i)]
                   /\ submitted' = [submitted EXCEPT ![cat] = Append(@, catWork[cat][i + 1])]
                   /\ pc' = "discCall"
       ELSE pc' = "web" /\ UNCHANGED << catWorkIdx, submitted >>
  /\ UNCHANGED << disk, sink, targetStates, allBiz, globalSeen, catCounts, runStateSet,
                  catWork, catOrder, activeCats, cat, i, chunkBiz, needWebsite, w,
                  withSites, noSites, n, e, k, rowBuffer, appendTab, ret, flushRet, done,
                  faults, runs, startedSt, fresh, lastSave, enrLog, flushFailed, mark,
                  sawDup >>
  /\ UNCHANGED aux

\* run(): for (const biz of results) { global dedup, accept, quota break }
RECURSIVE AcceptLoop(_, _, _)
AcceptLoop(results, stKey, acc) ==
  IF results = <<>> THEN acc
  ELSE LET biz == Head(results)
           key == dedupKey(biz)
       IN IF key \in acc.seen
            THEN AcceptLoop(Tail(results), stKey, [acc EXCEPT !.skipped = TRUE])
            ELSE LET acc2 == [seen |-> acc.seen \cup {key},
                              all |-> Append(acc.all, [biz EXCEPT !.stateKey = stKey]),
                              chunk |-> Append(acc.chunk, Len(acc.all) + 1),
                              count |-> acc.count + 1, skipped |-> acc.skipped]
                 IN IF acc2.count >= MaxPerCat
                      THEN acc2
                      ELSE AcceptLoop(Tail(results), stKey, acc2)

\* run(), STEP 1: the adapter returned its records.
DiscReturn ==
  /\ pc = "discCall"
  /\ LET wu == catWork[cat][i + 1]
         acc == AcceptLoop(Listing(cat, wu), wu.stKey,
                           [seen |-> globalSeen, all |-> allBiz, chunk |-> chunkBiz,
                            count |-> catCounts[cat], skipped |-> sawDup])
     IN /\ globalSeen' = acc.seen
        /\ allBiz' = acc.all
        /\ chunkBiz' = acc.chunk
        /\ catCounts' = [catCounts EXCEPT ![cat] = acc.count]
        /\ sawDup' = acc.skipped
        /\ IF acc.count >= MaxPerCat
             THEN pc' = "web" /\ UNCHANGED i
             ELSE pc' = "disc" /\ i' = i + 1
  /\ UNCHANGED << disk, sink, targetStates, catWorkIdx, runStateSet, catWork, catOrder,
                  activeCats, cat, needWebsite, w, withSites, noSites, n, e, k, rowBuffer,
                  appendTab, ret, flushRet, done, faults, runs, startedSt, fresh,
                  submitted, enrLog, flushFailed, mark, lastSave >>
  /\ UNCHANGED aux

\* run(), STEP 1: the adapter threw; catch { logError; continue }
DiscThrow ==
  /\ pc = "discCall"
  /\ faults < MaxFaults
  /\ faults' = faults + 1
  /\ i' = i + 1
  /\ pc' = "disc"
  /\ UNCHANGED << disk, sink, targetStates, allBiz, globalSeen, catCounts, catWorkIdx,
                  runStateSet, catWork, catOrder, activeCats, cat, chunkBiz, needWebsite,
                  w, withSites, noSites, n, e, k, rowBuffer, appendTab, ret, flushRet, done,
                  runs, startedSt, fresh, submitted, lastSave, enrLog, flushFailed, mark, sawDup >>
  /\ UNCHANGED aux

\* run(), STEP 2: needWebsite = chunkBiz.filter(b => !b.website)
Web ==
  /\ pc = "web"
  /\ LET need == SelectSeq(chunkBiz, LAMBDA x : allBiz[x].website = "") IN
       IF chunkBiz # <<>> /\ need # <<>>
         THEN needWebsite' = need /\ w' = 1 /\ pc' = "webDDG"
         ELSE needWebsite' = <<>> /\ w' = 0 /\ pc' = "pageClose"
  /\ UNCHANGED << disk, sink, targetStates, allBiz, globalSeen, catCounts, catWorkIdx,
                  runStateSet, catWork, catOrder, activeCats, cat, i, chunkBiz, withSites,
                  noSites, n, e, k, rowBuffer, appendTab, ret, flushRet, done, hist >>
  /\ UNCHANGED aux

\* run(), STEP 2: end of one iteration of for (const biz of needWebsite).
WebNext ==
  IF w < Len(needWebsite)
    THEN w' = w + 1 /\ pc' = "webDDG"
    ELSE w' = w /\ pc' = "pageClose"

\* Variant: without a link on the DuckDuckGo page the entity is given up.
WebDDG_mut ==
  /\ pc = "webDDG"
  /\ LET x == needWebsite[w]
         url == DuckDuckGo(allBiz[x].company_name)
     IN /\ allBiz' = IF url # "" THEN [allBiz EXCEPT ![x].website = url] ELSE allBiz
        /\ WebNext
  /\ UNCHANGED << disk, sink, targetStates, globalSeen, catCounts, catWorkIdx,
                  runStateSet, catWork, catOrder, activeCats, cat, i, chunkBiz,
                  needWebsite, withSites, noSites, n, e, k, rowBuffer, appendTab, ret,
                  flushRet, done, hist >>
  /\ UNCHANGED aux

\* run(), STEP 2: the DuckDuckGo result page came back.
WebDDG ==
  /\ pc = "webDDG"
  /\ LET x == needWebsite[w]
         url == DuckDuckGo(allBiz[x].company_name)
     IN IF url # ""
          THEN allBiz' = [allBiz EXCEPT ![x].website = url] /\ WebNext
          ELSE UNCHANGED << allBiz, w >> /\ pc' = "webGoogle"
  /\ UNCHANGED << disk, sink, targetStates, globalSeen, catCounts, catWorkIdx,
                  runStateSet, catWork, catOrder, activeCats, cat, i, chunkBiz,
                  needWebsite, withSites, noSites, n, e, k, rowBuffer, appendTab, ret,
                  flushRet, done, hist >>
  /\ UNCHANGED aux

\* run(), STEP 2: the Google result page came back.
WebGoogle ==
  /\ pc = "webGoogle"
  /\ LET x == needWebsite[w]
         url == Google(allBiz[x].company_name)
     IN allBiz' = IF url # "" THEN [allBiz EXCEPT ![x].website = url] ELSE allBiz
  /\ WebNext
  /\ UNCHANGED << disk, sink, targetStates, globalSeen, catCounts, catWorkIdx,
                  runStateSet, catWork, catOrder, activeCats, cat, i, chunkBiz,
                  needWebsite, withSites, noSites, n, e, k, rowBuffer, appendTab, ret,
                  flushRet, done, hist >>
  /\ UNCHANGED aux

\* run(), STEP 2: an exception while a result page is handled (the query of a
\* name that cannot be encoded, decodeURIComponent of a malformed uddg link)
\* ends in catch {}: the entity is left as it is and the loop goes on.
WebThrow ==
  /\ pc \in { "webDDG", "webGoogle" }
  /\ faults < MaxFaults
  /\ faults' = faults + 1
  /\ WebNext
  /\ UNCHANGED << disk, sink, targetStates, allBiz, globalSeen, catCounts, catWorkIdx,
                  runStateSet, catWork, catOrder, activeCats, cat, i, chunkBiz,
                  needWebsite, withSites, noSites, n, e, k, rowBuffer, appendTab, ret,
                  flushRet, done, runs, startedSt, fresh, submitted, enrLog, flushFailed,
                  mark, sawDup, lastSave >>
  /\ UNCHANGED aux

\* run(): page.close(), the empty-chunk continue, withSites / noSites.
PageClose ==
  /\ pc = "pageClose"
  /\ IF chunkBiz = <<>>
       THEN pc' = "turn" /\ UNCHANGED << withSites, noSites, n, e >>
       ELSE /\ withSites' = SelectSeq(chunkBiz, LAMBDA x : allBiz[x].website # "")
            /\ noSites' = SelectSeq(chunkBiz, LAMBDA x : allBiz[x].website = "")
            /\ n' = 1 /\ e' = 1
            /\ pc' = IF noSites' # <<>> THEN "pushNo" ELSE "enr"
  /\ UNCHANGED << disk, sink, targetStates, allBiz, globalSeen, catCounts, catWorkIdx,
                  runStateSet, catWork, catOrder, activeCats, cat, i, chunkBiz,
                  needWebsite, w, k, rowBuffer, appendTab, ret, flushRet, done, hist >>
  /\ UNCHANGED aux

\* run(): const tab = b.stateKey ? STATES[b.stateKey]?.tab : guessStateTab(b)
TabOf(b) == STATES[b.stateKey].tab

\* batchPushRows(tabName, [b]) up to its await; r is where the caller goes on.
batchPushRows(tabName, b, r) ==
  /\ rowBuffer' = rowBuffer \o toRows(b)
  /\ IF Len(rowBuffer') >= BatchSize
       THEN pc' = "append" /\ appendTab' = tabName /\ ret' = r
       ELSE pc' = r /\ UNCHANGED << appendTab, ret >>

\* run(), STEP 3: push one no-website business.
PushNo ==
  /\ pc = "pushNo"
  /\ batchPushRows(TabOf(allBiz[noSites[n]]), allBiz[noSites[n]], "pushNoNext")
  /\ UNCHANGED << disk, sink, targetStates, allBiz, globalSeen, catCounts, catWorkIdx,
                  runStateSet, catWork, catOrder, activeCats, cat, i, chunkBiz,
                  needWebsite, w, withSites, noSites, n, e, k, flushRet, done, hist >>
  /\ UNCHANGED aux

\* Variant: the no-website rows are not flushed before enrichment.
PushNoNext_mut ==
  /\ pc = "pushNoNext"
  /\ IF n < Len(noSites)
       THEN n' = n + 1 /\ pc' = "pushNo"
       ELSE n' = n /\ pc' = "enr"
  /\ UNCHANGED << disk, sink, targetStates, allBiz, globalSeen, catCounts, catWorkIdx,
                  runStateSet, catWork, catOrder, activeCats, cat, i, chunkBiz,
                  needWebsite, w, withSites, noSites, e, k, rowBuffer, appendTab, ret,
                  flushRet, done, hist >>
  /\ UNCHANGED aux

\* run(), STEP 3: next no-website business, or the flush over targetStates.
PushNoNext ==
  /\ pc = "pushNoNext"
  /\ IF n < Len(noSites)
       THEN n' = n + 1 /\ pc' = "pushNo" /\ UNCHANGED << k, flushRet >>
       ELSE n' = n /\ pc' = "flush" /\ k' = 1 /\ flushRet' = "enr"
  /\ UNCHANGED << disk, sink, targetStates, allBiz, globalSeen, catCounts, catWorkIdx,
                  runStateSet, catWork, catOrder, activeCats, cat, i, chunkBiz,
                  needWebsite, w, withSites, noSites, e, rowBuffer, appendTab, ret, done,
                  hist >>
  /\ UNCHANGED aux

\* for (const k of targetStates) await flushRows(STATES[k].tab), up to the await.
Flush ==
  /\ pc = "flush"
  /\ IF k > Len(targetStates)
       THEN pc' = flushRet /\ UNCHANGED << k, appendTab, ret >>
       ELSE IF rowBuffer = <<>>
              THEN k' = k + 1 /\ pc' = "flush" /\ UNCHANGED << appendTab, ret >>
              ELSE /\ pc' = "append"
                   /\ appendTab' = STATES[targetStates[k]].tab
                   /\ ret' = "flushNext"
                   /\ UNCHANGED k
  /\ UNCHANGED << disk, sink, targetStates, allBiz, globalSeen, catCounts, catWorkIdx,
                  runStateSet, catWork, catOrder, activeCats, cat, i, chunkBiz,
                  needWebsite, w, withSites, noSites, n, e, rowBuffer, flushRet, done,
                  hist >>
  /\ UNCHANGED aux

FlushNext ==
  /\ pc = "flushNext"
  /\ k' = k + 1
  /\ pc' = "flush"
  /\ UNCHANGED << disk, sink, targetStates, allBiz, globalSeen, catCounts, catWorkIdx,
                  runStateSet, catWork, catOrder, activeCats, cat, i, chunkBiz,
                  needWebsite, w, withSites, noSites, n, e, rowBuffer, appendTab, ret,
                  flushRet, done, hist >>
  /\ UNCHANGED aux

\* The rows of one values.append call, as they land in the tab.
Appended(tabName, rows) ==
  [x \in DOMAIN rows |-> [tab |-> tabName, key |-> rows[x].key, name |-> rows[x].name,
                          enriched |-> rows[x].enriched]]

\* batchPushRows / flushRows: values.append resolved.
AppendOk ==
  /\ pc = "append"
  /\ sink' = sink \o Appended(appendTab, rowBuffer)
  /\ rowBuffer' = <<>>
  /\ pc' = ret
  /\ UNCHANGED << disk, targetStates, allBiz, globalSeen, catCounts, catWorkIdx,
                  runStateSet, catWork, catOrder, activeCats, cat, i, chunkBiz,
                  needWebsite, w, withSites, noSites, n, e, k, appendTab, ret, flushRet,
                  done, hist >>
  /\ UNCHANGED aux

\* Variant: a rejected append empties the buffer.
AppendFail_mut ==
  /\ pc = "append"
  /\ faults < MaxFaults
  /\ faults' = faults + 1
  /\ flushFailed' = TRUE
  /\ rowBuffer' = <<>>
  /\ pc' = ret
  /\ UNCHANGED << disk, sink, targetStates, allBiz, globalSeen, catCounts, catWorkIdx,
                  runStateSet, catWork, catOrder, activeCats, cat, i, chunkBiz,
                  needWebsite, w, withSites, noSites, n, e, k, appendTab, ret,
                  flushRet, done, runs, startedSt, fresh, submitted, lastSave, enrLog, mark, sawDup >>
  /\ rejected' = rejected \cup { rowBuffer[x].key : x \in DOMAIN rowBuffer }
  /\ UNCHANGED << yelp, resolution, enrich, config, pages >>

\* batchPushRows / flushRows: values.append rejected; catch { logError }
AppendFail ==
  /\ pc = "append"
  /\ faults < MaxFaults
  /\ faults' = faults + 1
  /\ flushFailed' = TRUE
  /\ pc' = ret
  /\ UNCHANGED << disk, sink, targetStates, allBiz, globalSeen, catCounts, catWorkIdx,
                  runStateSet, catWork, catOrder, activeCats, cat, i, chunkBiz,
                  needWebsite, w, withSites, noSites, n, e, k, rowBuffer, appendTab, ret,
                  flushRet, done, runs, startedSt, fresh, submitted, lastSave, enrLog, mark, sawDup >>
  /\ rejected' = rejected \cup { rowBuffer[x].key : x \in DOMAIN rowBuffer }
  /\ UNCHANGED << yelp, resolution, enrich, config, pages >>

\* run(), STEP 3: head of the enrichment loop: stop check, waitPause.
Enr ==
  /\ pc = "enr"
  /\ IF e > Len(withSites)
       THEN pc' = "flush" /\ k' = 1 /\ flushRet' = "ckpt" /\ UNCHANGED enrLog
       ELSE IF stopFile
              THEN pc' = "flush" /\ k' = 1 /\ flushRet' = "stopSave" /\ UNCHANGED enrLog
              ELSE IF pauseFile
                     THEN pc' = "pausedEnr" /\ UNCHANGED << k, flushRet, enrLog >>
                     ELSE /\ pc' = "enrCall"
                          /\ enrLog' = Append(enrLog, withSites[e])
                          /\ UNCHANGED << k, flushRet >>
  /\ UNCHANGED << disk, sink, targetStates, allBiz, globalSeen, catCounts, catWorkIdx,
                  runStateSet, catWork, catOrder, activeCats, cat, i, chunkBiz,
                  needWebsite, w, withSites, noSites, n, e, rowBuffer, appendTab, ret,
                  done, faults, runs, startedSt, fresh, submitted, lastSave, flushFailed, mark, sawDup >>
  /\ UNCHANGED aux

\* run(), STEP 3: waitPause() returned; enrichBusiness(b) is called.
PausedEnr ==
  /\ pc = "pausedEnr"
  /\ waitPause
  /\ pc' = "enrCall"
  /\ enrLog' = Append(enrLog, withSites[e])
  /\ UNCHANGED << disk, sink, targetStates, allBiz, globalSeen, catCounts, catWorkIdx,
                  runStateSet, catWork, catOrder, activeCats, cat, i, chunkBiz,
                  needWebsite, w, withSites, noSites, n, e, k, rowBuffer, appendTab, ret,
                  flushRet, done, faults, runs, startedSt, fresh, submitted, lastSave, flushFailed, mark, sawDup >>
  /\ UNCHANGED aux

\* allBiz.findIndex(x => dedupKey(x) === dedupKey(b)), 1-based, 0 when absent.
findIndex(biz, b) ==
  IF \E x \in DOMAIN biz : dedupKey(biz[x]) = dedupKey(b)
    THEN CHOOSE x \in DOMAIN biz :
           /\ dedupKey(biz[x]) = dedupKey(b)
           /\ \A y \in DOMAIN biz : dedupKey(biz[y]) = dedupKey(b) => x <= y
    ELSE 0

\* enrichBusiness(b): a copy of b carrying contacts and enriched_at.
enrichBusiness(b) == [b EXCEPT !.enriched = TRUE]

\* run(), STEP 3: enrichBusiness resolved; replace in allBiz, push the rows.
EnrReturn ==
  /\ pc = "enrCall"
  /\ LET b == allBiz[withSites[e]]
         eb == enrichBusiness(b)
         idx == findIndex(allBiz, b)
     IN /\ allBiz' = IF idx > 0 THEN [allBiz EXCEPT ![idx] = eb] ELSE allBiz
        /\ batchPushRows(TabOf(eb), eb, "enrNext")
  /\ UNCHANGED << disk, sink, targetStates, globalSeen, catCounts, catWorkIdx,
                  runStateSet, catWork, catOrder, activeCats, cat, i, chunkBiz,
                  needWebsite, w, withSites, noSites, n, e, k, flushRet, done, hist >>
  /\ UNCHANGED aux

\* Variant: an entity whose enrichment threw is not pushed.
EnrThrow_mut ==
  /\ pc = "enrCall"
  /\ faults < MaxFaults
  /\ faults' = faults + 1
  /\ pc' = "enrNext"
  /\ UNCHANGED << disk, sink, targetStates, allBiz, globalSeen, catCounts, catWorkIdx,
                  runStateSet, catWork, catOrder, activeCats, cat, i, chunkBiz,
                  needWebsite, w, withSites, noSites, n, e, k, rowBuffer, appendTab, ret, flushRet, done, runs,
                  startedSt, fresh, submitted, lastSave, enrLog, flushFailed, mark, sawDup >>
  /\ UNCHANGED aux

\* run(), STEP 3: enrichBusiness threw; the un-enriched rows are pushed.
EnrThrow ==
  /\ pc = "enrCall"
  /\ faults < MaxFaults
  /\ faults' = faults + 1
  /\ batchPushRows(TabOf(allBiz[withSites[e]]), allBiz[withSites[e]], "enrNext")
  /\ UNCHANGED << disk, sink, targetStates, allBiz, globalSeen, catCounts, catWorkIdx,
                  runStateSet, catWork, catOrder, activeCats, cat, i, chunkBiz,
                  needWebsite, w, withSites, noSites, n, e, k, flushRet, done, runs,
                  startedSt, fresh, submitted, lastSave, enrLog, flushFailed, mark, sawDup >>
  /\ UNCHANGED aux

EnrNext ==
  /\ pc = "enrNext"
  /\ e' = e + 1
  /\ pc' = "enr"
  /\ UNCHANGED << disk, sink, targetStates, allBiz, globalSeen, catCounts, catWorkIdx,
                  runStateSet, catWork, catOrder, activeCats, cat, i, chunkBiz,
                  needWebsite, w, withSites, noSites, n, k, rowBuffer, appendTab, ret,
                  flushRet, done, hist >>
  /\ UNCHANGED aux

\* run(): "Checkpoint after each category".
Ckpt ==
  /\ pc = "ckpt"
  /\ stateFile' = saveState(Checkpoint(allBiz, catCounts, catWorkIdx))
  /\ lastSave' = "boundary"
  /\ pc' = "turn"
  /\ UNCHANGED << stopFile, pauseFile, sink, targetStates, allBiz, globalSeen, catCounts,
                  catWorkIdx, runStateSet, catWork, catOrder, activeCats, cat, i, chunkBiz,
                  needWebsite, w, withSites, noSites, n, e, k, rowBuffer, appendTab, ret,
                  flushRet, done, faults, runs, startedSt, fresh, submitted, enrLog, flushFailed, mark, sawDup >>
  /\ UNCHANGED aux

\* run(): stop seen in the enrichment loop, after the flush: save and return.
StopSave ==
  /\ pc = "stopSave"
  /\ stateFile' = saveState(Checkpoint(allBiz, catCounts, catWorkIdx))
  /\ lastSave' = "stop"
  /\ pc' = "closing"
  /\ UNCHANGED << stopFile, pauseFile, sink, targetStates, allBiz, globalSeen, catCounts,
                  catWorkIdx, runStateSet, catWork, catOrder, activeCats, cat, i, chunkBiz,
                  needWebsite, w, withSites, noSites, n, e, k, rowBuffer, appendTab, ret,
                  flushRet, done, faults, runs, startedSt, fresh, submitted, enrLog, flushFailed, mark, sawDup >>
  /\ UNCHANGED aux

\* emergencySave(signal): if (_runState && _runState.phase) saveState(_runState)
emergencySave ==
  IF runStateSet
    THEN saveState(Checkpoint(allBiz, catCounts, catWorkIdx))
    ELSE stateFile

\* run(): finally closeBrowser(); then either the summary (_runState = null,
\* clearState()) or the return to main and the 'beforeExit' emergency save.
\* The process is taken to end here (the dashboard timer is not modelled).
Closing ==
  /\ pc = "closing"
  /\ IF done
       THEN /\ stateFile' = <<>> /\ pauseFile' = FALSE /\ stopFile' = FALSE
            /\ lastSave' = "cleared"
       ELSE /\ stateFile' = emergencySave /\ UNCHANGED << stopFile, pauseFile >>
            /\ lastSave' = IF runStateSet THEN "exit" ELSE lastSave
  /\ ProcessGone
  /\ UNCHANGED << sink, faults, runs, startedSt, fresh, submitted >>
  /\ UNCHANGED aux

\* ---------------------------------------------------------- environment
\* Another process writes or removes a control file.  Between two awaits the
\* engine reads each flag at most once, so a change inside a synchronous
\* segment acts as a change at the await before it.
\* node engine.js stop
SetStop ==
  /\ Suspended /\ ~stopFile
  /\ faults < MaxFaults
  /\ faults' = faults + 1
  /\ stopFile' = TRUE
  /\ UNCHANGED << stateFile, pauseFile, sink, proc, runs, startedSt, fresh, submitted, lastSave,
                  enrLog, flushFailed, mark, sawDup >>
  /\ UNCHANGED aux

\* node engine.js pause
SetPause ==
  /\ Suspended /\ ~pauseFile
  /\ faults < MaxFaults
  /\ faults' = faults + 1
  /\ pauseFile' = TRUE
  /\ UNCHANGED << stateFile, stopFile, sink, proc, runs, startedSt, fresh, submitted, lastSave,
                  enrLog, flushFailed, mark, sawDup >>
  /\ UNCHANGED aux

\* The pause file is removed while the engine runs.
ClearPause ==
  /\ Suspended /\ pauseFile
  /\ faults < MaxFaults
  /\ faults' = faults + 1
  /\ pauseFile' = FALSE
  /\ UNCHANGED << stateFile, stopFile, sink, proc, runs, startedSt, fresh, submitted, lastSave,
                  enrLog, flushFailed, mark, sawDup >>
  /\ UNCHANGED aux

\* process.on('SIGHUP'): emergency save, the run goes on.
Sighup ==
  /\ Suspended
  /\ faults < MaxFaults
  /\ faults' = faults + 1
  /\ stateFile' = emergencySave
  /\ lastSave' = IF runStateSet THEN "signal" ELSE lastSave
  /\ UNCHANGED << stopFile, pauseFile, sink, proc, runs, startedSt, fresh, submitted,
                  enrLog, flushFailed, mark, sawDup >>
  /\ UNCHANGED aux

\* process.on('SIGINT' / 'SIGTERM'): emergency save, process.exit(0).
Sigterm ==
  /\ Suspended
  /\ faults < MaxFaults
  /\ faults' = faults + 1
  /\ stateFile' = emergencySave
  /\ lastSave' = IF runStateSet THEN "signal" ELSE lastSave
  /\ ProcessGone
  /\ UNCHANGED << stopFile, pauseFile, sink, runs, startedSt, fresh, submitted >>
  /\ UNCHANGED aux

\* Abrupt death of the process (SIGKILL, power loss): nothing is saved.
Kill ==
  /\ Suspended
  /\ faults < MaxFaults
  /\ faults' = faults + 1
  /\ ProcessGone
  /\ UNCHANGED << disk, sink, runs, startedSt, fresh, submitted, lastSave >>
  /\ UNCHANGED aux

Next ==
  \/ \E st \in {"AZ", "ALL"} : Start(st)
  \/ Resume
  \/ Build \/ Round \/ Turn \/ PausedTurn \/ GetPage
  \/ Disc \/ DiscReturn \/ DiscThrow
  \/ Web \/ WebDDG \/ WebGoogle \/ WebThrow \/ PageClose
  \/ PushNo \/ PushNoNext \/ Flush \/ FlushNext \/ AppendOk \/ AppendFail
  \/ Enr \/ PausedEnr \/ EnrReturn \/ EnrThrow \/ EnrNext
  \/ Ckpt \/ StopSave \/ Closing
  \/ SetStop \/ SetPause \/ ClearPause \/ Sighup \/ Sigterm \/ Kill

Spec == Init /\ [][Next]_allvars

TypeOK ==
  /\ pc \in { "idle", "init", "round", "turn", "pausedTurn", "getPage", "disc", "discCall",
              "web", "webDDG", "webGoogle", "pageClose", "pushNo", "pushNoNext", "flush",
              "flushNext", "append", "enr", "pausedEnr", "enrCall", "enrNext", "ckpt",
              "stopSave", "closing" }
  /\ faults \in 0..MaxFaults /\ runs \in 0..(MaxFaults + 1)

\* ============================================================ components
\* Every component specification starts from Init or from Idle with its own
\* inputs drawn, and leaves the engine where it is.

\* ---------------------------------------------------- Yelp circuit breaker
MaxCalls == 8         \* discoverYelpSingle calls of one process

YelpMaxFails == 5     \* if (_yelpConsecutiveFails >= 5)

\* What navigateAndWait can bring back: nothing or a stub (< 2000 chars), a
\* challenge page, a result page without listings, a result page with some.
YelpPages == { "short", "challenge", "nolisting", "listing" }

\* Variant: a successful call does not reset the counter.
YelpCounted_mut(fails, html) == IF html = "listing" THEN fails ELSE fails + 1

\* discoverYelpSingle: the counter after a call that went to the network.
YelpCounted(fails, html) == IF html = "listing" THEN 0 ELSE fails + 1

\* discoverYelpSingle: what the call is logged as (the STATS counter it bumps).
YelpOutcome(html) ==
  CASE html = "short" -> "blocked" [] html = "challenge" -> "challenge"
    [] html = "nolisting" -> "empty" [] OTHER -> "found"

\* One call of discoverYelpSingle(page, state, cat, city), entry to return.
discoverYelpSingle(html) ==
  /\ Len(yelpLog) < MaxCalls
  /\ IF yelpConsecutiveFails >= YelpMaxFails
       THEN /\ yelpLog' = Append(yelpLog, "skipped")
            /\ UNCHANGED yelpConsecutiveFails
       ELSE /\ yelpConsecutiveFails' = YelpCounted(yelpConsecutiveFails, html)
            /\ yelpLog' = Append(yelpLog, YelpOutcome(html))
  /\ UNCHANGED << srcFails, vars, resolution, enrich, delivery, config, pages >>

NextYelp == \E html \in YelpPages : discoverYelpSingle(html)

SpecYelp == Init /\ [][NextYelp]_allvars

\* ------------------------------------------------- the four adapters
MaxStreak == 6        \* failed calls in a row of one adapter other than Yelp

\* srcFails after a call of adapter src whose navigation brought back html.
Called(src, html) ==
  [srcFails EXCEPT ![src] = IF html = "listing" THEN 0 ELSE @ + 1]

\* One call of discoverYPSingle, by what its first page brought back:
\* nothing (errors++), a challenge title (blocked++), or listings.  No
\* counter is read before the navigation and none is written after it.
discoverYPSingle(html) ==
  /\ html # "listing" => srcFails["yp"] < MaxStreak
  /\ srcFails' = Called("yp", html)
  /\ UNCHANGED << yelpConsecutiveFails, yelpLog, vars, resolution, enrich, delivery,
                  config, pages >>

\* Variant: a failed BBB call counts on the Yelp counter.
discoverBBBSingle_mut(html) ==
  /\ html # "listing" => srcFails["bbb"] < MaxStreak
  /\ srcFails' = Called("bbb", html)
  /\ yelpConsecutiveFails' = IF html = "listing" THEN yelpConsecutiveFails
                                                 ELSE yelpConsecutiveFails + 1
  /\ UNCHANGED << yelpLog, vars, resolution, enrich, delivery, config, pages >>

\* One call of discoverBBBSingle: nothing (errors++) or a result page.
discoverBBBSingle(html) ==
  /\ html # "listing" => srcFails["bbb"] < MaxStreak
  /\ srcFails' = Called("bbb", html)
  /\ UNCHANGED << yelpConsecutiveFails, yelpLog, vars, resolution, enrich, delivery,
                  config, pages >>

\* One call of discoverGMapsSingle: nothing (errors++) or a result page.
discoverGMapsSingle(html) ==
  /\ html # "listing" => srcFails["gmaps"] < MaxStreak
  /\ srcFails' = Called("gmaps", html)
  /\ UNCHANGED << yelpConsecutiveFails, yelpLog, vars, resolution, enrich, delivery,
                  config, pages >>

\* The scheduler hands work units to the four adapters in any order.
NextSources ==
  \/ \E html \in {"none", "challenge", "listing"} : discoverYPSingle(html)
  \/ \E html \in {"short", "listing"} : discoverYelpSingle(html)
  \/ \E html \in {"none", "listing"} : discoverBBBSingle(html)
  \/ \E html \in {"none", "listing"} : discoverGMapsSingle(html)

\* A fresh process: the counter at 0, no adapter called yet.
InitSources == stateFile = <<>> /\ Idle /\ AuxIdle

SpecSources == InitSources /\ [][NextSources]_allvars

\* ------------------------------------------------------- entity resolution
MaxList == 3          \* records handed to dedupe(list)

\* The characters of the strings the records below carry.
Chars(str) ==
  CASE str = "Sunrise Bakery LLC" ->
         << "S", "u", "n", "r", "i", "s", "e", " ", "B", "a", "k", "e", "r", "y", " ", "L", "L", "C" >>
    [] str = "Sunrise Bakery" ->
         << "S", "u", "n", "r", "i", "s", "e", " ", "B", "a", "k", "e", "r", "y" >>
    [] str = "Grand Canyon Plumbing" ->
         << "G", "r", "a", "n", "d", " ", "C", "a", "n", "y", "o", "n", " ", "P", "l", "u", "m", "b", "i", "n", "g" >>
    [] str = "Grand Canyon Plumbing #2" ->
         << "G", "r", "a", "n", "d", " ", "C", "a", "n", "y", "o", "n", " ", "P", "l", "u", "m", "b", "i", "n", "g", " ", "#", "2" >>
    [] str = "Grand Canyon Plumbers" ->
         << "G", "r", "a", "n", "d", " ", "C", "a", "n", "y", "o", "n", " ", "P", "l", "u", "m", "b", "e", "r", "s" >>
    [] str = "Grand Canyon Plungers" ->
         << "G", "r", "a", "n", "d", " ", "C", "a", "n", "y", "o", "n", " ", "P", "l", "u", "n", "g", "e", "r", "s" >>
    [] str = "Quail Motors" ->
         << "Q", "u", "a", "i", "l", " ", "M", "o", "t", "o", "r", "s" >>
    [] str = "Zenith Dental" ->
         << "Z", "e", "n", "i", "t", "h", " ", "D", "e", "n", "t", "a", "l" >>
    [] str = "(555) 111-2222" ->
         << "(", "5", "5", "5", ")", " ", "1", "1", "1", "-", "2", "2", "2", "2" >>
    [] str = "5551112222" ->
         << "5", "5", "5", "1", "1", "1", "2", "2", "2", "2" >>
    [] str = "555-1234" ->
         << "5", "5", "5", "-", "1", "2", "3", "4" >>
    [] str = "sunrisebakery.com" ->
         << "s", "u", "n", "r", "i", "s", "e", "b", "a", "k", "e", "r", "y", ".", "c", "o", "m" >>
    [] str = "https://www.quailmotors.com/contact" ->
         << "h", "t", "t", "p", "s", ":", "/", "/", "w", "w", "w", ".", "q", "u", "a", "i", "l", "m", "o", "t", "o", "r", "s", ".", "c", "o", "m", "/", "c", "o", "n", "t", "a", "c", "t" >>
    [] str = "http://QuailMotors.com" ->
         << "h", "t", "t", "p", ":", "/", "/", "Q", "u", "a", "i", "l", "M", "o", "t", "o", "r", "s", ".", "c", "o", "m" >>
    [] str = "Phoenix" ->
         << "P", "h", "o", "e", "n", "i", "x" >>
    [] str = "Tucson" ->
         << "T", "u", "c", "s", "o", "n" >>
    [] str = "Mesa" ->
         << "M", "e", "s", "a" >>
    [] str = "PHOENIX" ->
         << "P", "H", "O", "E", "N", "I", "X" >>
    [] str = "john.smith@x.com" ->
         << "j", "o", "h", "n", ".", "s", "m", "i", "t", "h", "@", "x", ".", "c", "o", "m" >>
    [] str = "jane.doe@x.com" ->
         << "j", "a", "n", "e", ".", "d", "o", "e", "@", "x", ".", "c", "o", "m" >>
    [] str = "jsmith@x.com" ->
         << "j", "s", "m", "i", "t", "h", "@", "x", ".", "c", "o", "m" >>
    [] str = "jdoe@x.com" ->
         << "j", "d", "o", "e", "@", "x", ".", "c", "o", "m" >>
    [] str = "office@x.com" ->
         << "o", "f", "f", "i", "c", "e", "@", "x", ".", "c", "o", "m" >>
    [] str = "owner@y.org" ->
         << "o", "w", "n", "e", "r", "@", "y", ".", "o", "r", "g" >>
    [] str = "sarah.jones@x.com" ->
         << "s", "a", "r", "a", "h", ".", "j", "o", "n", "e", "s", "@", "x", ".", "c", "o", "m" >>
    [] str = "John" ->
         << "J", "o", "h", "n" >>
    [] str = "Smith" ->
         << "S", "m", "i", "t", "h" >>
    [] str = "Jane" ->
         << "J", "a", "n", "e" >>
    [] str = "Doe" ->
         << "D", "o", "e" >>
    [] str = "J" ->
         << "J" >>
    [] str = "Sarah" ->
         << "S", "a", "r", "a", "h" >>
    [] str = "Jones" ->
         << "J", "o", "n", "e", "s" >>
    [] str = "Pat" ->
         << "P", "a", "t" >>
    [] str = "Lee" ->
         << "L", "e", "e" >>
    [] str = "x.com" ->
         << "x", ".", "c", "o", "m" >>
    [] OTHER -> << >>

UpperCase ==
  << "A", "B", "C", "D", "E", "F", "G", "H", "I", "J", "K", "L", "M", "N", "O", "P", "Q", "R", "S", "T", "U", "V", "W", "X", "Y", "Z" >>
LowerCase ==
  << "a", "b", "c", "d", "e", "f", "g", "h", "i", "j", "k", "l", "m", "n", "o", "p", "q", "r", "s", "t", "u", "v", "w", "x", "y", "z" >>
Digits == { "0", "1", "2", "3", "4", "5", "6", "7", "8", "9" }

\* String.prototype.toLowerCase, one character / a whole string.
LowerChar(c) ==
  IF \E x \in DOMAIN UpperCase : UpperCase[x] = c
    THEN LowerCase[CHOOSE x \in DOMAIN UpperCase : UpperCase[x] = c]
    ELSE c
toLowerCase(cs) == [x \in DOMAIN cs |-> LowerChar(cs[x])]

\* \w of a lower-cased string, and \s.
IsWordChar(c) == c \in Range(LowerCase) \cup Digits \cup { "_" }
IsSpace(c) == c = " "

\* normName: the words  \b(llc|inc|corp|...)\b  removes.
LegalWords ==
  { << "l", "l", "c" >>,
    << "i", "n", "c" >>,
    << "c", "o", "r", "p" >>,
    << "l", "t", "d" >>,
    << "c", "o" >>,
    << "c", "o", "m", "p", "a", "n", "y" >>,
    << "e", "n", "t", "e", "r", "p", "r", "i", "s", "e", "s" >>,
    << "s", "e", "r", "v", "i", "c", "e", "s" >>,
    << "s", "o", "l", "u", "t", "i", "o", "n", "s" >>,
    << "g", "r", "o", "u", "p" >>,
    << "a", "s", "s", "o", "c", "i", "a", "t", "e", "s" >>,
    << "p", "a", "r", "t", "n", "e", "r", "s" >>,
    << "p", "l", "l", "c" >>,
    << "l", "p" >>,
    << "l", "l", "p" >> }

\* The maximal run of word characters that begins at the head of cs.
RECURSIVE WordAtHead(_)
WordAtHead(cs) ==
  IF cs = << >> \/ ~IsWordChar(Head(cs)) THEN << >>
  ELSE << Head(cs) >> \o WordAtHead(Tail(cs))

\* .replace(/\b(llc|...)\b/g, ''): every whole word of the list is removed.
RECURSIVE StripLegal(_)
StripLegal(cs) ==
  IF cs = << >> THEN << >>
  ELSE IF IsWordChar(Head(cs))
         THEN LET wd == WordAtHead(cs)
                  rest == SubSeq(cs, Len(wd) + 1, Len(cs))
              IN (IF wd \in LegalWords THEN << >> ELSE wd) \o StripLegal(rest)
         ELSE << Head(cs) >> \o StripLegal(Tail(cs))

\* .replace(/\s+/g, ' '): a run of white space becomes one blank.
RECURSIVE CollapseSpace(_)
CollapseSpace(cs) ==
  IF cs = << >> THEN << >>
  ELSE IF IsSpace(Head(cs)) /\ Len(cs) > 1 /\ IsSpace(cs[2])
         THEN CollapseSpace(Tail(cs))
         ELSE << IF IsSpace(Head(cs)) THEN " " ELSE Head(cs) >> \o CollapseSpace(Tail(cs))

\* String.prototype.trim
RECURSIVE TrimLeft(_)
TrimLeft(cs) == IF cs # << >> /\ IsSpace(Head(cs)) THEN TrimLeft(Tail(cs)) ELSE cs
RECURSIVE TrimRight(_)
TrimRight(cs) ==
  IF cs # << >> /\ IsSpace(cs[Len(cs)]) THEN TrimRight(SubSeq(cs, 1, Len(cs) - 1)) ELSE cs
trim(cs) == TrimRight(TrimLeft(cs))

normName(nm) ==
  LET lowered == toLowerCase(Chars(nm))
      kept == SelectSeq(StripLegal(lowered),
                        LAMBDA c : c \in Range(LowerCase) \cup Digits \/ IsSpace(c))
  IN trim(CollapseSpace(kept))

\* normPhone: the digits, the last ten of them.
normPhone(ph) ==
  LET d == SelectSeq(Chars(ph), LAMBDA c : c \in Digits)
  IN IF Len(d) > 10 THEN SubSeq(d, Len(d) - 9, Len(d)) ELSE d

\* cs without the prefix pre, when it begins with it.
StripPrefix(cs, pre) ==
  IF Len(cs) >= Len(pre) /\ SubSeq(cs, 1, Len(pre)) = pre
    THEN SubSeq(cs, Len(pre) + 1, Len(cs))
    ELSE cs

\* .replace(/\/.*$/, ''): cut at the first slash.
RECURSIVE CutAtSlash(_)
CutAtSlash(cs) ==
  IF cs = << >> \/ Head(cs) = "/" THEN << >>
  ELSE << Head(cs) >> \o CutAtSlash(Tail(cs))

normDomain(u) ==
  LET plain == StripPrefix(Chars(u), << "h", "t", "t", "p", ":", "/", "/" >>)
      a == IF plain # Chars(u) THEN plain
           ELSE StripPrefix(Chars(u), << "h", "t", "t", "p", "s", ":", "/", "/" >>)
      b == StripPrefix(a, << "w", "w", "w", "." >>)
  IN trim(toLowerCase(CutAtSlash(b)))

\* dice(): bg(s), the bigrams of s in order.
Bigrams(cs) == [x \in 1..(Len(cs) - 1) |-> << cs[x], cs[x + 1] >>]

\* dice(): the matching loop.  Each bigram of a takes the first bigram of b
\* that equals it and is not yet used; the result is m.
RECURSIVE DiceMatches(_, _, _)
DiceMatches(ab, bb, used) ==
  IF ab = << >> THEN 0
  ELSE LET free == { x \in DOMAIN bb : x \notin used /\ bb[x] = Head(ab) }
       IN IF free = {}
            THEN DiceMatches(Tail(ab), bb, used)
            ELSE LET x == CHOOSE y \in free : \A z \in free : y <= z
                 IN 1 + DiceMatches(Tail(ab), bb, used \cup {x})

\* dice(a, b) as the fraction << numerator, denominator >>.  The quotient the
\* code computes in floating point compares with 0.85 and with 0.7 as this
\* fraction does: two quotients of integers this small that differ, differ
\* by far more than the rounding of a double.
dice(a, b) ==
  IF a = << >> \/ b = << >> THEN << 0, 1 >>
  ELSE IF a = b THEN << 1, 1 >>
  ELSE << 2 * DiceMatches(Bigrams(a), Bigrams(b), {}),
          Len(Bigrams(a)) + Len(Bigrams(b)) >>

\* sameEntity: if (pa && pb && pa.length >= 10 && pa === pb)
SamePhone(pa, pb) == pa # << >> /\ pb # << >> /\ Len(pa) >= 10 /\ pa = pb

\* sameEntity: if (da && db && da === db)
SameDomain(da, db) == da # << >> /\ db # << >> /\ da = db

\* Variant: the threshold is met at exactly 0.85.
Over85_mut(s) == s[1] * 20 >= 17 * s[2]

\* s > 0.85 and s > 0.7 (0 / 0 is NaN, which exceeds nothing).
Over85(s) == s[1] * 20 > 17 * s[2]
Over70(s) == s[1] * 10 > 7 * s[2]

sameEntity(a, b) ==
  LET s == dice(normName(a.company_name), normName(b.company_name)) IN
  \/ SameDomain(normDomain(a.website), normDomain(b.website))
  \/ SamePhone(normPhone(a.phone), normPhone(b.phone))
  \/ Over85(s)
  \/ Over70(s) /\ toLowerCase(Chars(a.city)) = toLowerCase(Chars(b.city))

\* Variant: the candidate's phone replaces the entity's.
Backfill_mut(u, b) ==
  [u EXCEPT !.phone = IF b.phone # "" THEN b.phone ELSE @,
            !.address = IF @ = "" THEN b.address ELSE @,
            !.city = IF @ = "" THEN b.city ELSE @,
            !.website = IF @ = "" THEN b.website ELSE @,
            !.industry = IF @ = "" THEN b.industry ELSE @]

\* dedupe: for (const k of [...]) if (!uniq[i][k] && b[k]) uniq[i][k] = b[k]
Backfill(u, b) ==
  [u EXCEPT !.phone = IF @ = "" THEN b.phone ELSE @,
            !.address = IF @ = "" THEN b.address ELSE @,
            !.city = IF @ = "" THEN b.city ELSE @,
            !.website = IF @ = "" THEN b.website ELSE @,
            !.industry = IF @ = "" THEN b.industry ELSE @]

\* dedupe: the first entry of uniq that sameEntity matches with b, 0 if none.
FirstMatch(un, b) ==
  LET hits == { x \in DOMAIN un : sameEntity(un[x].biz, b) } IN
  IF hits = {} THEN 0 ELSE CHOOSE x \in hits : \A y \in hits : x <= y

\* dedupe(list) from position x on.  An entry of uniq is the entity (biz), its
\* sources, and for observation the positions of list merged into it (from).
RECURSIVE DedupeFrom(_, _, _)
DedupeFrom(lst, x, un) ==
  IF x > Len(lst) THEN un
  ELSE LET b == lst[x]
           h == FirstMatch(un, b)
       IN IF h > 0
            THEN DedupeFrom(lst, x + 1,
                   [un EXCEPT ![h] =
                      [biz |-> Backfill(@.biz, b),
                       sources |-> IF b.source \in Range(@.sources)
                                     THEN @.sources ELSE Append(@.sources, b.source),
                       from |-> @.from \cup {x}]])
            ELSE DedupeFrom(lst, x + 1,
                   Append(un, [biz |-> b, sources |-> << b.source >>, from |-> {x}]))

dedupe(lst) == DedupeFrom(lst, 1, << >>)

\* A raw record as the four adapters build it.
Raw(src, nm, ph, cty, web) ==
  [source |-> src, company_name |-> nm, phone |-> ph, address |-> "", city |-> cty,
   state |-> "Arizona", website |-> web, industry |-> "", stateKey |-> "",
   enriched |-> FALSE]

\* The sightings the lists are drawn from.
Sightings ==
  { Raw("yp", "Sunrise Bakery LLC", "(555) 111-2222", "Phoenix", ""),
    Raw("yelp", "Sunrise Bakery", "5551112222", "Phoenix", "sunrisebakery.com"),
    Raw("yp", "Grand Canyon Plumbing", "", "Phoenix", ""),
    Raw("yelp", "Grand Canyon Plumbers", "555-1234", "Tucson", ""),
    Raw("bbb", "Grand Canyon Plungers", "", "Mesa", ""),
    Raw("gmaps", "Grand Canyon Plumbing #2", "", "Mesa", ""),
    Raw("yelp", "Quail Motors", "555-1234", "Mesa", "https://www.quailmotors.com/contact"),
    Raw("bbb", "Zenith Dental", "(555) 111-2222", "PHOENIX", "http://QuailMotors.com") }

InitResolution ==
  /\ stateFile = <<>> /\ Idle
  /\ \E len \in 1..MaxList : list \in [1..len -> Sightings]
  /\ uniq = <<>>
  /\ yelpConsecutiveFails = 0 /\ yelpLog = <<>> /\ srcFails = NoFails
  /\ allContacts = <<>> /\ allNamesNoEmail = <<>> /\ pattern = ""
  /\ mxCache = {} /\ m = 0 /\ epc = "idle"
  /\ rejected = {} /\ chunkSize = ChunkSize /\ NoSite

\* v5 run(), Phase 2: allBiz = dedupe(allBiz)
Dedupe ==
  /\ uniq = <<>> /\ allBiz = <<>>
  /\ uniq' = dedupe(list)
  /\ UNCHANGED << vars, list, yelp, enrich, delivery, config, pages >>

\* v6.1 run(): the accept loop over the records of one work unit, from a
\* fresh run's empty entity set.
Accept ==
  /\ allBiz = <<>> /\ uniq = <<>>
  /\ LET acc == AcceptLoop(list, "AZ",
                           [seen |-> {}, all |-> <<>>, chunk |-> <<>>,
                            count |-> 0, skipped |-> FALSE])
     IN /\ allBiz' = acc.all
        /\ globalSeen' = acc.seen
        /\ sawDup' = acc.skipped
  /\ UNCHANGED << disk, sink, pc, targetStates, catCounts, catWorkIdx, runStateSet,
                  catWork, catOrder, activeCats, cat, i, chunkBiz, needWebsite, w,
                  withSites, noSites, n, e, k, rowBuffer, appendTab, ret, flushRet, done,
                  faults, runs, startedSt, fresh, submitted, enrLog, flushFailed, mark,
                  lastSave, aux >>

NextResolution == Dedupe \/ Accept

SpecResolution == InitResolution /\ [][NextResolution]_allvars

\* ------------------------------------------------ enrichment: infer, verify
MaxContacts == 2      \* contacts extracted from the pages and WHOIS
MaxNames == 1         \* names found without an email

\* const patterns = { 'first': 0, 'first.last': 0, ... } in insertion order.
PatternNames ==
  << "first", "first.last", "firstlast", "flast", "first_last", "firstl", "last" >>

\* The local part pattern pat gives for first name f and last name l.
LocalFor(pat, f, l) ==
  CASE pat = "first" -> f
    [] pat = "first.last" -> f \o << "." >> \o l
    [] pat = "firstlast" -> f \o l
    [] pat = "flast" -> << f[1] >> \o l
    [] pat = "first_last" -> f \o << "_" >> \o l
    [] pat = "firstl" -> f \o << l[1] >>
    [] OTHER -> l

\* email.split('@'): the part before the first '@', the part after it.
RECURSIVE BeforeAt(_)
BeforeAt(cs) ==
  IF cs = << >> \/ Head(cs) = "@" THEN << >> ELSE << Head(cs) >> \o BeforeAt(Tail(cs))
RECURSIVE AfterAt(_)
AfterAt(cs) ==
  IF cs = << >> THEN << >>
  ELSE IF Head(cs) = "@" THEN BeforeAt(Tail(cs)) ELSE AfterAt(Tail(cs))

\* detectEmailPattern: the if / else-if chain; 0 when the contact is skipped
\* or its local part equals no candidate.
VoteOf(c) ==
  IF c.email = << >> \/ c.first_name = << >> \/ c.last_name = << >> THEN 0
  ELSE LET local == toLowerCase(BeforeAt(c.email))
           f == toLowerCase(c.first_name)
           l == toLowerCase(c.last_name)
           hits == { x \in DOMAIN PatternNames : local = LocalFor(PatternNames[x], f, l) }
       IN IF hits = {} THEN 0 ELSE CHOOSE x \in hits : \A y \in hits : x <= y

\* detectEmailPattern: the counting loop.
RECURSIVE Tally(_, _)
Tally(cts, counts) ==
  IF cts = << >> THEN counts
  ELSE LET v == VoteOf(Head(cts))
       IN Tally(Tail(cts), IF v = 0 THEN counts ELSE [counts EXCEPT ![v] = @ + 1])

\* Variant: a later pattern with as many votes replaces the best.
Better_mut(count, bestCount) == count >= bestCount /\ count > 0

\* detectEmailPattern: if (count > bestCount)
Better(count, bestCount) == count > bestCount

\* detectEmailPattern: the loop over Object.entries(patterns); best is a
\* position in PatternNames, 0 for null.
RECURSIVE BestFrom(_, _, _, _)
BestFrom(counts, x, best, bestCount) ==
  IF x > Len(PatternNames) THEN best
  ELSE IF Better(counts[x], bestCount)
         THEN BestFrom(counts, x + 1, x, counts[x])
         ELSE BestFrom(counts, x + 1, best, bestCount)

\* detectEmailPattern(contacts): the pattern, "" for null.
detectEmailPattern(cts) ==
  LET best == BestFrom(Tally(cts, [x \in DOMAIN PatternNames |-> 0]), 1, 0, 0)
  IN IF best = 0 THEN "" ELSE PatternNames[best]

\* generateEmail(pattern, fname, lname, domain): << >> for null.
generateEmail(pat, fname, lname, domain) ==
  LET f == SelectSeq(toLowerCase(fname), LAMBDA c : c \in Range(LowerCase))
      l == SelectSeq(toLowerCase(lname), LAMBDA c : c \in Range(LowerCase))
  IN IF f = << >> \/ l = << >> \/ pat \notin Range(PatternNames) THEN << >>
     ELSE LocalFor(pat, f, l) \o << "@" >> \o domain

\* A contact; prior keeps, for observation, the confidence it was created with.
Contact(em, fn, ln, conf) ==
  [email |-> Chars(em), first_name |-> Chars(fn), last_name |-> Chars(ln),
   confidence |-> conf, prior |-> conf]

\* enrichBusiness: the domain of the site being enriched.
SiteDomain == Chars("x.com")

\* What extraction and WHOIS can have found on the site.
FoundContacts ==
  { Contact("john.smith@x.com", "John", "Smith", "found"),
    Contact("jane.doe@x.com", "Jane", "Doe", "found"),
    Contact("jsmith@x.com", "J", "Smith", "found"),
    Contact("jdoe@x.com", "John", "Doe", "found"),
    Contact("office@x.com", "", "", "found"),
    Contact("owner@y.org", "Pat", "Lee", "whois") }

FoundNames ==
  { [first_name |-> Chars("Sarah"), last_name |-> Chars("Jones")],
    [first_name |-> Chars("John"), last_name |-> Chars("Smith")] }

\* enrichBusiness: the inference loop over allNamesNoEmail.
RECURSIVE InferFrom(_, _, _)
InferFrom(names, pat, cts) ==
  IF names = << >> THEN cts
  ELSE LET person == Head(names)
           em == generateEmail(pat, person.first_name, person.last_name, SiteDomain)
       IN IF em # << >> /\ \A x \in DOMAIN cts : cts[x].email # em
            THEN InferFrom(Tail(names), pat,
                   Append(cts, [email |-> em, first_name |-> person.first_name,
                                last_name |-> person.last_name,
                                confidence |-> "inferred", prior |-> "inferred"]))
            ELSE InferFrom(Tail(names), pat, cts)

\* enrichBusiness has collected the contacts of the site (allEmails keeps
\* their emails distinct) and the names without email.
InitEnrich ==
  /\ stateFile = <<>> /\ Idle
  /\ yelpConsecutiveFails = 0 /\ yelpLog = <<>> /\ srcFails = NoFails
  /\ list = <<>> /\ uniq = <<>>
  /\ \E len \in 0..MaxContacts :
       allContacts \in { cs \in [1..len -> FoundContacts] :
                           \A x, y \in 1..len : x # y => cs[x].email # cs[y].email }
  /\ \E len \in 0..MaxNames : allNamesNoEmail \in [1..len -> FoundNames]
  /\ pattern = "" /\ mxCache = {} /\ m = 0 /\ epc = "infer"
  /\ rejected = {} /\ chunkSize = ChunkSize /\ NoSite

\* enrichBusiness, "Email pattern inference".
Infer ==
  /\ epc = "infer"
  /\ pattern' = detectEmailPattern(allContacts)
  /\ allContacts' = IF pattern' # "" /\ Len(allNamesNoEmail) > 0
                      THEN InferFrom(allNamesNoEmail, pattern', allContacts)
                      ELSE allContacts
  /\ m' = 1
  /\ epc' = "mx"
  /\ UNCHANGED << vars, yelp, resolution, delivery, config, pages, allNamesNoEmail, mxCache >>

\* Variant: a contact without mail-exchange records keeps its confidence
\* unless it was inferred.
Verified_mut(conf, mxValid) ==
  IF mxValid
    THEN CASE conf = "found" -> "verified"
           [] conf = "inferred" -> "inferred_mx_ok"
           [] OTHER -> conf
    ELSE IF conf = "inferred" THEN "inferred_no_mx" ELSE conf

\* enrichBusiness, "MX verification": the confidence after the lookup.
Verified(conf, mxValid) ==
  IF mxValid
    THEN CASE conf = "found" -> "verified"
           [] conf = "inferred" -> "inferred_mx_ok"
           [] OTHER -> conf
    ELSE IF conf = "inferred" THEN "inferred_no_mx" ELSE "no_mx"

\* enrichBusiness, "MX verification": one turn of the loop.  verifyEmailMx
\* answers from mxCache, or asks the DNS (records: TRUE; none, or an error:
\* FALSE) and caches the answer.
MxStep(dns) ==
  /\ epc = "mx"
  /\ IF m > Len(allContacts)
       THEN /\ epc' = "done" /\ UNCHANGED << allContacts, mxCache, m >>
       ELSE LET domain == AfterAt(allContacts[m].email)
                cached == \E en \in mxCache : en[1] = domain
                mxValid == IF domain = << >> THEN FALSE
                           ELSE IF cached
                                  THEN (CHOOSE en \in mxCache : en[1] = domain)[2]
                                  ELSE dns
            IN /\ (cached \/ domain = << >>) => dns
               /\ mxCache' = IF domain = << >> \/ cached THEN mxCache
                             ELSE mxCache \cup { << domain, mxValid >> }
               /\ allContacts' = [allContacts EXCEPT
                                    ![m].confidence = Verified(@, mxValid)]
               /\ m' = m + 1
               /\ UNCHANGED epc
  /\ UNCHANGED << vars, yelp, resolution, delivery, config, pages, allNamesNoEmail, pattern >>

NextEnrich == Infer \/ \E dns \in BOOLEAN : MxStep(dns)

SpecEnrich == InitEnrich /\ [][NextEnrich]_allvars

\* ------------------------------------------- enrichment: the page loop
MaxPages == 3         \* C.maxPages, scaled down

NamedEnough == 5      \* allContacts.filter(c => c.first_name).length >= 5

\* A contact found on a page, with a resolved name.
Staff(x) ==
  [email |-> << x, "@" >> \o SiteDomain, first_name |-> << x >>, last_name |-> << "l" >>,
   confidence |-> "found", prior |-> "found"]

\* What fetchUrl and extractContacts give for a page: data (the fetch brought
\* a body), the contacts, and the page's companyInfo, which always has
\* site_title and has phone only when the page shows one.
SitePages ==
  { [data |-> FALSE, contacts |-> << >>, companyInfo |-> [site_title |-> ""]],
    [data |-> TRUE,
     contacts |-> << Staff("a"), Staff("b"), Staff("c"), Staff("d"), Staff("e") >>,
     companyInfo |-> [phone |-> "602-1111", site_title |-> "Acme"]],
    [data |-> TRUE,
     contacts |-> << Contact("office@x.com", "", "", "found"), Staff("f") >>,
     companyInfo |-> [phone |-> "602-2222", site_title |-> ""]],
    [data |-> TRUE, contacts |-> << Staff("a") >>,
     companyInfo |-> [site_title |-> "About"]] }

\* for (const c of contacts) if (!allEmails.has(c.email)) { ...push(c) }
RECURSIVE AddContacts(_, _)
AddContacts(all, cts) ==
  IF cts = << >> THEN all
  ELSE AddContacts(IF \E x \in DOMAIN all : all[x].email = Head(cts).email
                     THEN all ELSE Append(all, Head(cts)),
                   Tail(cts))

\* { ...a, ...b }
Spread(a, b) ==
  [key \in DOMAIN a \cup DOMAIN b |-> IF key \in DOMAIN b THEN b[key] ELSE a[key]]

\* allContacts.filter(c => c.first_name).length
Named(cts) == Len(SelectSeq(cts, LAMBDA c : c.first_name # << >>))

\* findPages(): '/' and the matching paths, cut to C.maxPages; the last
\* position of the site in subPages.
findPages == IF Len(site) < MaxPages THEN Len(site) ELSE MaxPages

\* enrichBusiness is entered for a site whose base URL resolved; every page
\* of the site is linked from its homepage by a matching path.
InitPages ==
  /\ stateFile = <<>> /\ Idle
  /\ yelpConsecutiveFails = 0 /\ yelpLog = <<>> /\ srcFails = NoFails
  /\ list = <<>> /\ uniq = <<>>
  /\ allContacts = <<>> /\ allNamesNoEmail = <<>> /\ pattern = ""
  /\ mxCache = {} /\ m = 0 /\ epc = "home"
  /\ rejected = {} /\ chunkSize = ChunkSize
  /\ \E len \in 1..(MaxPages + 1) : site \in [1..len -> SitePages]
  /\ pg = 0 /\ companyInfo = <<>> /\ fetched = <<>>

\* enrichBusiness, "Homepage".
Homepage ==
  /\ epc = "home"
  /\ fetched' = Append(fetched, 1)
  /\ IF ~site[1].data
       THEN /\ epc' = "done"
            /\ UNCHANGED << allContacts, companyInfo, pg >>
       ELSE /\ allContacts' = AddContacts(allContacts, site[1].contacts)
            /\ companyInfo' = Spread(<<>>, site[1].companyInfo)
            /\ pg' = 2
            /\ epc' = "sub"
  /\ UNCHANGED << vars, yelp, resolution, delivery, config, site, allNamesNoEmail,
                  pattern, mxCache, m >>

\* enrichBusiness, "Subpages": one turn of the loop over subPages.slice(1).
Subpage ==
  /\ epc = "sub"
  /\ IF pg > findPages
       THEN /\ epc' = "infer"
            /\ UNCHANGED << allContacts, companyInfo, pg, fetched >>
       ELSE /\ fetched' = Append(fetched, pg)
            /\ IF ~site[pg].data
                 THEN /\ pg' = pg + 1
                      /\ UNCHANGED << allContacts, companyInfo, epc >>
                 ELSE /\ allContacts' = AddContacts(allContacts, site[pg].contacts)
                      /\ companyInfo' = Spread(companyInfo, site[pg].companyInfo)
                      /\ IF Named(allContacts') >= NamedEnough
                           THEN epc' = "infer" /\ UNCHANGED pg
                           ELSE pg' = pg + 1 /\ UNCHANGED epc
  /\ UNCHANGED << vars, yelp, resolution, delivery, config, site, allNamesNoEmail,
                  pattern, mxCache, m >>

NextPages == Homepage \/ Subpage

SpecPages == InitPages /\ [][NextPages]_allvars

\* ------------------------------------------- v5 phase pipeline: Phase 4
\* src/engine.js runs four phases over one region; Phase 4 pushes the
\* businesses without website, then enriches and pushes the others.  Its
\* batchPushRows and flushRows are those of v6.1 (AppendOk, AppendFail).
MaxBiz == 3       \* businesses that reach Phase 4
SaveEvery == 2    \* the periodic checkpoint, if (i % 10 === 0), scaled

\* What Phases 1-3 can have left in allBiz for region AZ.
V5Pool ==
  { [Rec("Acme", "AZ", "") EXCEPT !.stateKey = "AZ"],
    [Rec("Eats", "AZ", "") EXCEPT !.stateKey = "AZ"],
    [Rec("Bolt", "AZ", "bolt.com") EXCEPT !.stateKey = "AZ"],
    [Rec("Cafe", "AZ", "cafe.com") EXCEPT !.stateKey = "AZ"] }

\* saveState({ st, phase, biz, enrichIdx })
V5Checkpoint(biz, idx) == [st |-> "AZ", phase |-> 4, biz |-> biz, enrichIdx |-> idx]

\* allBiz.filter(b => b.website) / allBiz.filter(b => !b.website), as the
\* positions in allBiz, in order.
RECURSIVE FilterSites(_, _, _)
FilterSites(biz, x, withSite) ==
  IF x > Len(biz) THEN << >>
  ELSE IF (biz[x].website # "") = withSite
         THEN << x >> \o FilterSites(biz, x + 1, withSite)
         ELSE FilterSites(biz, x + 1, withSite)

\* allBiz.findIndex(x => x.company_name === b.company_name && x.website === b.website)
V5FindIndex(biz, b) ==
  LET hits == { x \in DOMAIN biz :
                  biz[x].company_name = b.company_name /\ biz[x].website = b.website }
  IN IF hits = {} THEN 0 ELSE CHOOSE x \in hits : \A y \in hits : x <= y

\* What the v5 pipeline never touches.
v5rest == << pauseFile, targetStates, globalSeen, catCounts, catWorkIdx, runStateSet,
             catWork, catOrder, activeCats, cat, chunkBiz, needWebsite, w, e, k,
             flushRet, startedSt, fresh, submitted, enrLog, flushFailed, mark, sawDup,
             lastSave >>

\* A fresh `start --state AZ` has finished Phase 3 and saved
\* { phase: 4, biz: allBiz, enrichIdx } with enrichIdx = 0.
InitV5 ==
  /\ \E len \in 1..MaxBiz :
       allBiz \in { s \in [1..len -> V5Pool] : \A x, y \in 1..len : x # y => s[x] # s[y] }
  /\ stateFile = saveState(V5Checkpoint(allBiz, 0))
  /\ stopFile = FALSE /\ pauseFile = FALSE
  /\ sink = <<>>
  /\ pc = "v5phase4" /\ i = 0
  /\ targetStates = <<>> /\ globalSeen = {}
  /\ catCounts = ZeroCounts /\ catWorkIdx = ZeroCounts
  /\ runStateSet = FALSE
  /\ catWork = [c \in Range(CATS) |-> <<>>] /\ catOrder = <<>>
  /\ activeCats = <<>> /\ cat = ""
  /\ chunkBiz = <<>> /\ needWebsite = <<>> /\ w = 0
  /\ withSites = <<>> /\ noSites = <<>> /\ n = 0 /\ e = 0 /\ k = 0
  /\ rowBuffer = <<>> /\ appendTab = "" /\ ret = "" /\ flushRet = ""
  /\ done = FALSE
  /\ faults = 0 /\ runs = 1 /\ startedSt = "AZ" /\ fresh = TRUE
  /\ submitted = [c \in Range(CATS) |-> <<>>]
  /\ enrLog = <<>> /\ flushFailed = FALSE /\ mark = 0 /\ sawDup = FALSE
  /\ lastSave = ""
  /\ AuxIdle

\* flushRows(tabName) up to its await; r is where the caller goes on.
V5flushRows(tabName, r) ==
  IF rowBuffer # <<>>
    THEN pc' = "append" /\ appendTab' = tabName /\ ret' = r
    ELSE pc' = r /\ UNCHANGED << appendTab, ret >>

\* main(), case 'resume' and run() down to Phase 4: the checkpoint is loaded,
\* the control files removed, Phases 1-3 skipped (startPhase = 4).
V5Resume ==
  /\ pc = "idle" /\ loadState # <<>>
  /\ faults < MaxFaults
  /\ faults' = faults + 1
  /\ allBiz' = loadState[1].biz
  /\ i' = loadState[1].enrichIdx
  /\ stopFile' = FALSE
  /\ runs' = runs + 1
  /\ pc' = "v5phase4"
  /\ UNCHANGED << stateFile, sink, withSites, noSites, n, rowBuffer, appendTab, ret,
                  done, v5rest >>
  /\ UNCHANGED aux

\* run(), PHASE 4: the two filters; the no-website push when enrichIdx === 0.
V5Phase4 ==
  /\ pc = "v5phase4"
  /\ withSites' = FilterSites(allBiz, 1, TRUE)
  /\ noSites' = FilterSites(allBiz, 1, FALSE)
  /\ IF i = 0 /\ noSites' # <<>>
       THEN n' = 1 /\ pc' = "v5pushNo"
       ELSE n' = 0 /\ pc' = "v5loop"
  /\ UNCHANGED << stateFile, stopFile, sink, allBiz, i, rowBuffer, appendTab, ret,
                  done, faults, runs, v5rest >>
  /\ UNCHANGED aux

\* run(), PHASE 4: for (const b of noSites) await batchPushRows(st.tab, [b])
V5PushNo ==
  /\ pc = "v5pushNo"
  /\ batchPushRows(TabOf(allBiz[noSites[n]]), allBiz[noSites[n]], "v5pushNoNext")
  /\ UNCHANGED << stateFile, stopFile, sink, allBiz, withSites, noSites, n, i, done,
                  faults, runs, v5rest >>
  /\ UNCHANGED aux

\* run(), PHASE 4: the next no-website business, or flushRows(st.tab).
V5PushNoNext ==
  /\ pc = "v5pushNoNext"
  /\ IF n < Len(noSites)
       THEN /\ n' = n + 1 /\ pc' = "v5pushNo"
            /\ UNCHANGED << appendTab, ret >>
       ELSE /\ n' = n
            /\ V5flushRows("Arizona", "v5loop")
  /\ UNCHANGED << stateFile, stopFile, sink, allBiz, withSites, noSites, i, rowBuffer,
                  done, faults, runs, v5rest >>
  /\ UNCHANGED aux

\* run(), PHASE 4: head of the enrichment loop (waitPause returns at once,
\* no pause file), the stop check, and the flush after the loop.
V5Loop ==
  /\ pc = "v5loop"
  /\ IF i >= Len(withSites)
       THEN V5flushRows("Arizona", "v5summary")
       ELSE IF stopFile
              THEN V5flushRows("Arizona", "v5stopSave")
              ELSE pc' = "v5enrich" /\ UNCHANGED << appendTab, ret >>
  /\ UNCHANGED << stateFile, stopFile, sink, allBiz, withSites, noSites, n, i,
                  rowBuffer, done, faults, runs, v5rest >>
  /\ UNCHANGED aux

\* run(), PHASE 4: stop seen: saveState({ phase: 4, biz, enrichIdx: i });
\* return; the process ends.
V5StopSave ==
  /\ pc = "v5stopSave"
  /\ stateFile' = saveState(V5Checkpoint(allBiz, i))
  /\ ProcessGone
  /\ UNCHANGED << stopFile, pauseFile, sink, faults, runs, startedSt, fresh, submitted,
                  lastSave >>
  /\ UNCHANGED aux

\* run(), PHASE 4: enrichBusiness resolved; replace in allBiz, push the rows.
V5EnrReturn ==
  /\ pc = "v5enrich"
  /\ LET b == allBiz[withSites[i + 1]]
         eb == enrichBusiness(b)
         idx == V5FindIndex(allBiz, b)
     IN /\ allBiz' = IF idx > 0 THEN [allBiz EXCEPT ![idx] = eb] ELSE allBiz
        /\ batchPushRows(TabOf(eb), eb, "v5tick")
  /\ UNCHANGED << stateFile, stopFile, sink, withSites, noSites, n, i, done, faults,
                  runs, v5rest >>
  /\ UNCHANGED aux

\* run(), PHASE 4: enrichBusiness threw; the un-enriched rows are pushed.
V5EnrThrow ==
  /\ pc = "v5enrich"
  /\ faults < MaxFaults
  /\ faults' = faults + 1
  /\ batchPushRows(TabOf(allBiz[withSites[i + 1]]), allBiz[withSites[i + 1]], "v5tick")
  /\ UNCHANGED << stateFile, stopFile, sink, allBiz, withSites, noSites, n, i, done,
                  runs, v5rest >>
  /\ UNCHANGED aux

\* run(), PHASE 4: the periodic checkpoint, i++.
V5Tick ==
  /\ pc = "v5tick"
  /\ stateFile' = IF i % SaveEvery = 0 THEN saveState(V5Checkpoint(allBiz, i + 1))
                  ELSE stateFile
  /\ i' = i + 1
  /\ pc' = "v5loop"
  /\ UNCHANGED << stopFile, sink, allBiz, withSites, noSites, n, rowBuffer, appendTab,
                  ret, done, faults, runs, v5rest >>
  /\ UNCHANGED aux

\* run(), SUMMARY: the CSV is written, clearState(); the process ends.
V5Summary ==
  /\ pc = "v5summary"
  /\ stateFile' = <<>> /\ stopFile' = FALSE /\ pauseFile' = FALSE
  /\ ProcessGone
  /\ UNCHANGED << sink, faults, runs, startedSt, fresh, submitted, lastSave >>
  /\ UNCHANGED aux

\* node engine.js stop, while the engine is inside an await.
V5SetStop ==
  /\ pc \in { "append", "v5enrich" } /\ ~stopFile
  /\ faults < MaxFaults
  /\ faults' = faults + 1
  /\ stopFile' = TRUE
  /\ UNCHANGED << stateFile, pauseFile, sink, proc, runs, startedSt, fresh, submitted,
                  lastSave, enrLog, flushFailed, mark, sawDup >>
  /\ UNCHANGED aux

NextV5 ==
  \/ V5Resume \/ V5Phase4 \/ V5PushNo \/ V5PushNoNext \/ V5Loop \/ V5StopSave
  \/ V5EnrReturn \/ V5EnrThrow \/ V5Tick \/ V5Summary \/ V5SetStop
  \/ AppendOk \/ AppendFail

SpecV5 == InitV5 /\ [][NextV5]_allvars

\* ------------------------------------------------ a run left to itself
\* A job started with any chunk size --chunk can set (parseInt keeps 0),
\* never paused, stopped, signalled or killed; adapters, enrichment and
\* appends may still fail.
InitRun ==
  /\ stateFile = <<>> /\ Idle
  /\ yelpConsecutiveFails = 0 /\ yelpLog = <<>> /\ srcFails = NoFails
  /\ list = <<>> /\ uniq = <<>>
  /\ allContacts = <<>> /\ allNamesNoEmail = <<>> /\ pattern = ""
  /\ mxCache = {} /\ m = 0 /\ epc = "idle"
  /\ rejected = {}
  /\ chunkSize \in 0..ChunkSize /\ NoSite

NextRun ==
  \/ \E st \in {"AZ", "ALL"} : Start(st)
  \/ Build \/ Round \/ Turn \/ GetPage
  \/ Disc \/ DiscReturn \/ DiscThrow
  \/ Web \/ WebDDG \/ WebGoogle \/ WebThrow \/ PageClose
  \/ PushNo \/ PushNoNext \/ Flush \/ FlushNext \/ AppendOk \/ AppendFail
  \/ Enr \/ EnrReturn \/ EnrThrow \/ EnrNext
  \/ Ckpt \/ Closing

\* The event loop runs every continuation that is ready.
SpecRun == InitRun /\ [][NextRun]_allvars /\ WF_allvars(NextRun)

\* ================================================================ claims
KeysOf(biz) == { dedupKey(b) : b \in Range(biz) }

LiveCheckpoint == << Checkpoint(allBiz, catCounts, catWorkIdx) >>

\* A step that begins a new operation of each kind.
StartsDiscovery == pc = "disc" /\ pc' = "discCall"
StartsSearch ==
  \/ pc = "web" /\ pc' = "webDDG"
  \/ pc \in {"webDDG", "webGoogle"} /\ pc' = "webDDG" /\ w' # w
  \/ pc = "webDDG" /\ pc' = "webGoogle"
StartsEnrichment == pc \in {"enr", "pausedEnr"} /\ pc' = "enrCall"

\* C1: over an interrupted run and the runs resumed from its checkpoint, no
\* entity's output row is appended to the sink more than once.  (Every run
\* after the first is resumed from a checkpoint.)
C1_NoDuplicateRows ==
  \A x, y \in DOMAIN sink : x # y => sink[x].key # sink[y].key

\* C2: no checkpoint on disk ever contains an entity whose output rows have
\* not been handed to the sink.
C2_CheckpointOnlyFlushed ==
  loadState # <<>> =>
    \A b \in Range(loadState[1].allBiz) :
      \E x \in DOMAIN sink : sink[x].key = dedupKey(b)

\* C3: at every point of run(), fresh or resumed, the seen-key set is exactly
\* the set of dedup keys of the entities of allBiz, and no two entities of
\* allBiz share a dedup key.
C3_SeenMatchesEntities ==
  /\ globalSeen = KeysOf(allBiz)
  /\ \A x, y \in DOMAIN allBiz : x # y => dedupKey(allBiz[x]) # dedupKey(allBiz[y])

\* C3 witness: a resumed run in which the global dedup dropped a sighting.
C3_Witness == Running /\ ~fresh /\ sawDup /\ allBiz # <<>>

\* C4: once the stop flag is set, no step begins a discovery call, a website
\* search or an enrichment, and the return on stop leaves a checkpoint of
\* every accepted entity with the current counts and cursors.
C4_StopStartsNothing ==
  [][ /\ stopFile => ~(StartsDiscovery \/ StartsSearch \/ StartsEnrichment)
      /\ (stopFile /\ pc \in {"turn", "stopSave"} /\ pc' = "closing")
           => stateFile' = LiveCheckpoint ]_vars

\* C5: while the pause flag is set and the stop flag is not, no step begins
\* a discovery call or an enrichment.
C5_PauseStartsNothing ==
  [][ (pauseFile /\ ~stopFile) => ~(StartsDiscovery \/ StartsEnrichment) ]_vars

\* The checkpoint is internally consistent.
Consistent(cp, tStates) ==
  /\ Len(cp.allBiz) = SumOver(cp.catCounts, Range(CATS))
  /\ \A c \in Range(CATS) : cp.catWorkIdx[c] <= Len(UnitsOf(tStates))

\* C6: a SIGINT, SIGTERM or SIGHUP at a suspension point of a run writes a
\* checkpoint holding every entity accepted so far with the current counts
\* and cursors; in a run started fresh the number of entities equals the sum
\* of the counts and every cursor is at most the length of the queue.
C6_SignalCheckpoint ==
  [][ (Sighup \/ Sigterm) =>
        /\ stateFile' = LiveCheckpoint
        /\ fresh => Consistent(stateFile'[1], targetStates) ]_vars

\* C6 witness: a fresh run goes on after a signal saved accepted entities.
C6_Witness ==
  /\ fresh /\ lastSave = "signal" /\ pc = "enrCall"
  /\ loadState # <<>> /\ loadState[1].allBiz # <<>>
  /\ \E c \in Range(CATS) : loadState[1].catWorkIdx[c] > 0

\* C7: across interruption and resume, every work unit of a category is
\* submitted for discovery at most once.
C7_UnitsSubmittedOnce ==
  \A c \in Range(CATS) :
    \A x, y \in DOMAIN submitted[c] : x # y => submitted[c][x] # submitted[c][y]

\* C8: a resumed run works on the region selection the job was started with.
C8_ResumeKeepsRegion ==
  (Running /\ ~fresh) =>
    targetStates = (IF startedSt = "ALL" THEN StateKeys ELSE << startedSt >>)

\* C9: in a run started fresh no category count exceeds the quota, and a
\* category is given a discovery turn only while its count is below the
\* quota and its cursor is before the end of its queue.
C9_QuotaAndRotation ==
  /\ [](fresh => \A c \in Range(CATS) : catCounts[c] <= MaxPerCat)
  /\ [][ (fresh /\ pc \in {"turn", "pausedTurn"} /\ pc' = "getPage") =>
           /\ catCounts'[cat'] < MaxPerCat
           /\ catWorkIdx'[cat'] < Len(catWork'[cat']) ]_vars

\* C9 witness: a later round of a fresh run gives a turn to a category that
\* already had one, while another category sits at its quota.
C9_Witness ==
  /\ fresh /\ pc = "getPage" /\ catWorkIdx[cat] > 0
  /\ \E c \in Range(CATS) : c # cat /\ catCounts[c] = MaxPerCat

\* The rows the sink received since the current chunk began, and the buffer.
InNewSink(x) == \E p \in (mark + 1)..Len(sink) : sink[p].key = dedupKey(allBiz[x])
InBuffer(x) == \E p \in DOMAIN rowBuffer : rowBuffer[p].key = dedupKey(allBiz[x])

FirstEnrichmentBegins == StartsEnrichment /\ e = 1

\* The chunk is being pushed and enriched.
InPushPhase ==
  pc \in { "pushNo", "pushNoNext", "flush", "flushNext", "append", "enr", "pausedEnr",
           "enrCall", "enrNext", "ckpt", "stopSave" }

\* Keys leaving for the sheet, oldest first: delivered since the chunk began,
\* then still buffered.
Outgoing ==
  [p \in 1..(Len(sink) - mark) |-> sink[mark + p].key]
    \o [p \in DOMAIN rowBuffer |-> rowBuffer[p].key]

NoSiteRowsFirst ==
  InPushPhase =>
    \A p, q \in DOMAIN Outgoing :
      p < q => ~( /\ \E x \in Range(withSites) : Outgoing[p] = dedupKey(allBiz[x])
                  /\ \E x \in Range(noSites) : Outgoing[q] = dedupKey(allBiz[x]) )

EnrichmentInOrder ==
  /\ \A p, q \in DOMAIN enrLog : p < q => enrLog[p] < enrLog[q]
  /\ InPushPhase =>
       \A x \in Range(chunkBiz) :
         (enrLog # <<>> /\ allBiz[x].website # "" /\ x < enrLog[Len(enrLog)])
           => x \in Range(enrLog)

\* C10 as stated: when enrichment of the first website-bearing entity of a
\* chunk begins, the rows of every no-website entity of the chunk have been
\* delivered to the sink; enrichment follows discovery order.
C10_NoSiteDeliveredFirst ==
  /\ [][ FirstEnrichmentBegins => \A p \in DOMAIN noSites : InNewSink(noSites[p]) ]_vars
  /\ []EnrichmentInOrder

\* C10 amended: when enrichment of the first website-bearing entity of a
\* chunk begins, the rows of every no-website entity of the chunk have been
\* delivered to the sink or, after a failed append, are still in the row
\* buffer; they never leave for the sink behind a row of a website-bearing
\* entity of the chunk; enrichment follows discovery order.
C10_NoSiteFlushedFirst ==
  /\ [][ FirstEnrichmentBegins =>
           \A p \in DOMAIN noSites :
             InNewSink(noSites[p]) \/ (flushFailed /\ InBuffer(noSites[p])) ]_vars
  /\ [](NoSiteRowsFirst /\ EnrichmentInOrder)

\* C10 witness: the second website-bearing entity of a chunk that also holds
\* a no-website entity is being enriched.
C10_Witness == pc = "enrCall" /\ Len(enrLog) = 2 /\ noSites # <<>>

\* The region an output row's entity was discovered in.  Every listing of
\* this world reports the state of the unit it answers, so the state part of
\* the row's key names the entity's stateKey.
RowStateKey(row) ==
  CHOOSE st \in Range(StateKeys) : NormAlpha(STATES[st].name) = row.key[3]

\* C11: every row of the sink lies in the tab of the region in which its
\* entity was discovered.
C11_RowsInOwnTab ==
  \A x \in DOMAIN sink : sink[x].tab = STATES[RowStateKey(sink[x])].tab

\* The calls p .. p + YelpMaxFails - 1 all went to the network and failed.
YelpFailed(x) == x \in { "blocked", "challenge", "empty" }
FailedRun(p) ==
  /\ p >= 1 /\ p + YelpMaxFails - 1 <= Len(yelpLog)
  /\ \A q \in p..(p + YelpMaxFails - 1) : YelpFailed(yelpLog[q])

\* C12: a Yelp call is skipped (no network call, no records) exactly when
\* some YelpMaxFails consecutive earlier calls of the process failed; the
\* counter is the number of failures since the last successful call.
C12_BreakerTrips ==
  /\ \A p \in DOMAIN yelpLog :
       yelpLog[p] = "skipped" <=> \E q \in 1..(p - YelpMaxFails) : FailedRun(q)
  /\ \A p \in DOMAIN yelpLog :
       (yelpLog[p] = "found" /\ \A q \in (p + 1)..Len(yelpLog) : YelpFailed(yelpLog[q]))
         => yelpConsecutiveFails = Len(yelpLog) - p

\* C12 witness: five failures with a success among them leave the breaker
\* closed; five consecutive ones then open it.
C12_Witness ==
  /\ Len(yelpLog) = 8
  /\ YelpFailed(yelpLog[1]) /\ yelpLog[2] = "found"
  /\ FailedRun(3) /\ yelpLog[8] = "skipped"

\* C13: after the accept loop no two entities of allBiz match under the
\* entity-resolution rules; the two sightings of Sunrise Bakery are one
\* entity, with the website of the second.
C13_AcceptedAreResolved ==
  /\ \A x, y \in DOMAIN allBiz : x # y => ~sameEntity(allBiz[x], allBiz[y])
  /\ ( /\ allBiz # <<>>
       /\ list = << Raw("yp", "Sunrise Bakery LLC", "(555) 111-2222", "Phoenix", ""),
                    Raw("yelp", "Sunrise Bakery", "5551112222", "Phoenix",
                        "sunrisebakery.com") >> )
       => Len(allBiz) = 1 /\ allBiz[1].website = "sunrisebakery.com"

\* Two records of the list, taken as the claims about pairs take them.
EqualPhones(a, b) == normPhone(a.phone) # << >> /\ normPhone(a.phone) = normPhone(b.phone)
EqualDomains(a, b) ==
  normDomain(a.website) # << >> /\ normDomain(a.website) = normDomain(b.website)
DifferentLocalities(a, b) == toLowerCase(Chars(a.city)) # toLowerCase(Chars(b.city))
NameScore(a, b) == dice(normName(a.company_name), normName(b.company_name))

\* C14: dedupe(list) puts any two records of the list with equal non-empty
\* normalized phones, or equal non-empty normalized domains, into the same
\* output entity.
C14_EqualPhoneOrDomainMerged ==
  uniq # <<>> =>
    \A x, y \in DOMAIN list :
      (x < y /\ (EqualPhones(list[x], list[y]) \/ EqualDomains(list[x], list[y])))
        => \E u \in DOMAIN uniq : {x, y} \subseteq uniq[u].from

\* The pairs C15 is about: no domain match, no phone match, different localities.
NameOnly(a, b) ==
  /\ ~EqualDomains(a, b) /\ ~EqualPhones(a, b) /\ DifferentLocalities(a, b)

\* C15 as stated: on such a pair sameEntity reports a match when the Dice
\* score of the normalized names is exactly 0.85, and none when it is below.
C15_MatchAtThreshold ==
  uniq # <<>> =>
    \A x, y \in DOMAIN list :
      (x < y /\ NameOnly(list[x], list[y])) =>
        LET s == NameScore(list[x], list[y]) IN
        /\ s[1] * 20 = 17 * s[2] => sameEntity(list[x], list[y])
        /\ s[1] * 20 < 17 * s[2] => ~sameEntity(list[x], list[y])

\* C15 amended: on such a pair sameEntity reports a match exactly when the
\* score exceeds 0.85; at exactly 0.85, and below, it reports none.
C15_MatchAboveThreshold ==
  uniq # <<>> =>
    \A x, y \in DOMAIN list :
      (x < y /\ NameOnly(list[x], list[y])) =>
        LET s == NameScore(list[x], list[y]) IN
        sameEntity(list[x], list[y]) <=> s[1] * 20 > 17 * s[2]

\* C15 witness: dedupe has compared a pair that scores exactly 0.85 (kept
\* apart), a pair that scores 0.8 and a pair above 0.85 (merged).
C15_Witness ==
  /\ Len(uniq) = 2 /\ Len(list) = 3
  /\ NameOnly(list[1], list[2]) /\ NameScore(list[1], list[2]) = << 34, 40 >>
  /\ NameOnly(list[1], list[3]) /\ NameScore(list[1], list[3]) = << 40, 42 >>
  /\ \E p, q \in Sightings : NameOnly(p, q) /\ NameScore(p, q) = << 32, 40 >>

\* ---------------------------------------------------------------- C16
\* Contact c has an email, a first name and a last name, and its local part
\* is exactly what pattern number x gives for that name.
ExactMatch(c, x) ==
  /\ c.email # << >> /\ c.first_name # << >> /\ c.last_name # << >>
  /\ toLowerCase(BeforeAt(c.email))
       = LocalFor(PatternNames[x], toLowerCase(c.first_name), toLowerCase(c.last_name))

ExactMatches(cts, x) == Cardinality({ cx \in DOMAIN cts : ExactMatch(cts[cx], x) })

\* One vote per contact: for the first pattern, in enumeration order, that it
\* matches exactly.
Votes(cts, x) ==
  Cardinality({ cx \in DOMAIN cts :
                  ExactMatch(cts[cx], x) /\ \A y \in 1..(x - 1) : ~ExactMatch(cts[cx], y) })

\* The first pattern, in enumeration order, with the highest positive count;
\* "" when every count is zero.
Winner(cts, Count(_, _)) ==
  LET top == { x \in DOMAIN PatternNames :
                 /\ Count(cts, x) >= 1
                 /\ \A y \in DOMAIN PatternNames : Count(cts, y) <= Count(cts, x) }
  IN IF top = {} THEN "" ELSE PatternNames[CHOOSE x \in top : \A y \in top : x <= y]

JohnAndJane ==
  << Contact("john.smith@x.com", "John", "Smith", "found"),
     Contact("jane.doe@x.com", "Jane", "Doe", "found") >>

SarahJones == [first_name |-> Chars("Sarah"), last_name |-> Chars("Jones")]

\* From john.smith@x.com / jane.doe@x.com the pattern is first.last and
\* Sarah Jones is synthesized as sarah.jones@x.com.
ExampleHolds ==
  (allContacts = JohnAndJane /\ allNamesNoEmail = << SarahJones >>)
    => /\ pattern' = "first.last"
       /\ \E cx \in DOMAIN allContacts' :
            /\ allContacts'[cx].email = Chars("sarah.jones@x.com")
            /\ allContacts'[cx].confidence = "inferred"

\* C16 (as stated): detectEmailPattern returns the pattern with the highest
\* number of exact local-part matches among the contacts that have an email,
\* a first name and a last name, ties broken by enumeration order, and no
\* pattern when no contact matches; John Smith / Jane Doe give first.last and
\* Sarah Jones becomes sarah.jones@x.com.
C16_HighestExactMatches ==
  [][epc = "infer" => /\ pattern' = Winner(allContacts, ExactMatches)
                      /\ ExampleHolds]_allvars

\* C16 (amended): every contact that has an email, a first name and a last
\* name casts one vote, for the first pattern in enumeration order that its
\* local part matches exactly; detectEmailPattern returns the pattern with
\* the highest vote count, ties broken by enumeration order, and no pattern
\* when no contact votes; John Smith / Jane Doe give first.last and Sarah
\* Jones becomes sarah.jones@x.com.
C16_HighestVoteCount ==
  [][epc = "infer" => /\ pattern' = Winner(allContacts, Votes)
                      /\ ExampleHolds]_allvars

\* jsmith@x.com (J Smith) matches firstlast and flast and votes firstlast;
\* jdoe@x.com (John Doe) votes flast: one vote each, firstlast is returned
\* although flast has two exact matches, and Sarah Jones is synthesized from it.
C16_Witness ==
  /\ epc = "mx" /\ m = 1
  /\ Len(allContacts) = 3
  /\ allContacts[1].email = Chars("jsmith@x.com")
  /\ allContacts[2].email = Chars("jdoe@x.com")
  /\ ExactMatches(SubSeq(allContacts, 1, 2), 4) = 2
  /\ pattern = "firstlast"
  /\ allContacts[3].confidence = "inferred"
  /\ allContacts[3].email
       = toLowerCase(Chars("Sarah") \o Chars("Jones")) \o << "@" >> \o SiteDomain

\* ---------------------------------------------------------------- C17
\* The mail-exchange result of the contact's email domain, as cached.
HasMx(c) == << AfterAt(c.email), TRUE >> \in mxCache

\* The transitions of found and inferred.
FoundInferredTransition(c) ==
  /\ c.prior = "found" => c.confidence = IF HasMx(c) THEN "verified" ELSE "no_mx"
  /\ c.prior = "inferred"
       => c.confidence = IF HasMx(c) THEN "inferred_mx_ok" ELSE "inferred_no_mx"
  /\ c.confidence \notin { "found", "inferred" }

\* C17 (as stated): at the end of the enrichment pass every contact's
\* confidence follows from its prior confidence and the mail-exchange result
\* of its domain: found -> verified / no_mx, inferred -> inferred_mx_ok /
\* inferred_no_mx, none is left found or inferred, and whois stays whois.
C17_ConfidenceAfterMx ==
  epc = "done"
    => \A cx \in DOMAIN allContacts :
         /\ FoundInferredTransition(allContacts[cx])
         /\ allContacts[cx].prior = "whois" => allContacts[cx].confidence = "whois"

\* C17 (amended): as stated for found and inferred; a contact tagged whois
\* keeps the tag whois when records exist and becomes no_mx when none exist.
C17_ConfidenceAfterMxWhoisDowngraded ==
  epc = "done"
    => \A cx \in DOMAIN allContacts :
         /\ FoundInferredTransition(allContacts[cx])
         /\ allContacts[cx].prior = "whois"
              => allContacts[cx].confidence
                   = IF HasMx(allContacts[cx]) THEN "whois" ELSE "no_mx"

\* A pass that ended with a found contact verified, an inferred contact
\* confirmed, and a WHOIS contact whose domain has no mail-exchange records.
C17_Witness ==
  /\ epc = "done"
  /\ \E cx \in DOMAIN allContacts :
       allContacts[cx].prior = "found" /\ allContacts[cx].confidence = "verified"
  /\ \E cx \in DOMAIN allContacts :
       allContacts[cx].prior = "inferred" /\ allContacts[cx].confidence = "inferred_mx_ok"
  /\ \E cx \in DOMAIN allContacts :
       /\ allContacts[cx].prior = "whois" /\ allContacts[cx].confidence = "no_mx"
       /\ << AfterAt(allContacts[cx].email), FALSE >> \in mxCache

\* ---------------------------------------------------------------- C18
\* C18: a run started on a checkpoint file that does not parse ends before
\* any discovery, website search, enrichment or output; it does not go on as
\* a fresh run.
C18_CorruptCheckpointFatal ==
  [][ stateFile = Unparsable
        => /\ ~(StartsDiscovery \/ StartsSearch \/ StartsEnrichment)
           /\ sink' = sink ]_allvars

\* ---------------------------------------------------------------- C20
\* The keys of the rows handed to the sink so far, accepted or rejected.
Handed == { sink[x].key : x \in DOMAIN sink } \cup rejected

\* C20: when the job reaches DONE, every entity accepted into the global
\* entity set has had its output rows handed to the sink at least once,
\* also after a stop or a termination signal in the middle of a chunk and a
\* later resume.
C20_AllAcceptedHanded ==
  (pc = "closing" /\ done) => \A b \in Range(allBiz) : dedupKey(b) \in Handed

\* ---------------------------------------------------------------- C19
\* C19: in the v5 pipeline, over a run stopped in Phase 4 and the resumed
\* run, every business has its rows pushed to the sink exactly once: none is
\* pushed twice and, when the job completes (no append having been
\* rejected), none is missing.
C19_PushedExactlyOnce ==
  /\ \A x, y \in DOMAIN sink : x # y => sink[x].key # sink[y].key
  /\ (pc = "v5summary" /\ rejected = {})
       => \A b \in Range(allBiz) : \E x \in DOMAIN sink : sink[x].key = dedupKey(b)

\* ---------------------------------------------------------------- C21
\* C21: for every chunk size that --chunk can set, 0 included, a run that is
\* neither paused nor stopped reaches DONE.
C21_RunReachesDone == <>(pc = "closing" /\ done)

\* ---------------------------------------------------------------- C22
\* The discovery loop of a turn ends only when the chunk is full, the queue
\* is exhausted, stop is seen or the quota is reached; a unit that yields
\* nothing or throws is followed by the next unit.
TurnEndsOnlyAtBound ==
  /\ (pc = "disc" /\ pc' = "web")
       => (Len(chunkBiz) >= chunkSize \/ i >= Len(catWork[cat]) \/ stopFile)
  /\ (pc = "discCall" /\ pc' = "web") => catCounts'[cat] >= MaxPerCat
  /\ (pc = "discCall" /\ pc' = "disc") => i' = i + 1

\* C22 (as stated): a turn consumes WorkUnits until the accepted records
\* reach the chunk size, the quota is reached, the queue is exhausted or stop
\* is seen, never ending early on a unit without new records, and the
\* records accepted in one turn never exceed the chunk size.
C22_ChunkNeverExceeded ==
  [][ TurnEndsOnlyAtBound /\ Len(chunkBiz') <= chunkSize ]_allvars

\* C22 (amended): as stated, except that the records accepted in one turn may
\* exceed the chunk size by records of the last WorkUnit consumed: a WorkUnit
\* is consumed only while fewer than chunk-size records are accepted.
C22_UnitTakenBelowChunk ==
  [][ TurnEndsOnlyAtBound /\ (pc = "discCall" => Len(chunkBiz) < chunkSize) ]_allvars

\* A turn whose last unit carried the chunk over the chunk size, in a run
\* where the global dedup had dropped a sighting.
C22_Witness ==
  /\ pc = "web" /\ ~stopFile
  /\ Len(chunkBiz) > chunkSize
  /\ sawDup

\* ---------------------------------------------------------------- C23
IsPrefix(s, t) == Len(s) <= Len(t) /\ SubSeq(t, 1, Len(s)) = s

\* C23: while the engine runs, a failed append leaves the row buffer as it
\* is; the buffer only grows by pushed rows, and it is emptied only in a
\* successful append, which hands every buffered row to the sink, the rows
\* of earlier failed appends included.
C23_FailedAppendKeepsRows ==
  [][ Running' =>
        /\ (pc = "append" /\ sink' = sink) => rowBuffer' = rowBuffer
        /\ \/ IsPrefix(rowBuffer, rowBuffer') /\ sink' = sink
           \/ /\ pc = "append" /\ rowBuffer' = <<>>
              /\ sink' = sink \o Appended(appendTab, rowBuffer) ]_allvars

\* C23 witness: an append was rejected and a later append delivered its rows.
C23_Witness ==
  /\ Running /\ rejected # {} /\ rowBuffer = <<>>
  /\ \A key \in rejected : \E x \in DOMAIN sink : sink[x].key = key

\* ---------------------------------------------------------------- C24
\* The adapter call of a WorkUnit threw: nothing is accepted and the loop
\* goes on with the next unit.
AdapterThrewGoesOn ==
  (pc = "discCall" /\ pc' # "discCall" /\ faults' = faults + 1 /\ Running')
    => /\ pc' = "disc" /\ i' = i + 1
       /\ UNCHANGED << allBiz, chunkBiz, catCounts, catWorkIdx, cat, activeCats >>

\* The enrichment of an entity threw: its row is pushed as it is and the
\* loop goes on with the next entity.
EnrichThrewGoesOn ==
  (pc = "enrCall" /\ pc' # "enrCall" /\ faults' = faults + 1 /\ Running')
    => /\ rowBuffer' = rowBuffer \o toRows(allBiz[withSites[e]])
       /\ ~allBiz[withSites[e]].enriched /\ allBiz' = allBiz
       /\ pc' = "enrNext" \/ (pc' = "append" /\ ret' = "enrNext")
       /\ UNCHANGED << e, withSites, cat, activeCats >>

\* The rows of the chunk that were handed to the sink or wait in the buffer.
ChunkRowOut(b) ==
  \/ \E x \in DOMAIN sink : sink[x].key = dedupKey(b) /\ sink[x].enriched = b.enriched
  \/ \E x \in DOMAIN rowBuffer :
       rowBuffer[x].key = dedupKey(b) /\ rowBuffer[x].enriched = b.enriched
  \/ dedupKey(b) \in rejected

C25_EverySourceBreaks ==
  /\ yelpConsecutiveFails <= YelpMaxFails
  /\ \A src \in DOMAIN srcFails : srcFails[src] <= YelpMaxFails

\* C25, amended: only Yelp has a consecutive-failure counter and breaker.
\* The counter never passes five, at five every later Yelp call is skipped
\* without a navigation, a Yelp call that finds listings resets it, and a call of one adapter changes neither the Yelp
\* counter (unless it is the Yelp adapter) nor the failure run of another.
C25_OnlyYelpBreaks ==
  /\ [][ /\ srcFails' # srcFails
             => /\ UNCHANGED << yelpConsecutiveFails, yelpLog >>
                /\ \E src \in DOMAIN srcFails :
                     \A x \in DOMAIN srcFails \ {src} : srcFails'[x] = srcFails[x]
         /\ yelpLog' # yelpLog => srcFails' = srcFails
         /\ (yelpLog' # yelpLog /\ yelpConsecutiveFails >= YelpMaxFails)
             => /\ yelpLog' = Append(yelpLog, "skipped")
                /\ UNCHANGED yelpConsecutiveFails
         /\ yelpLog' = Append(yelpLog, "found") => yelpConsecutiveFails' = 0 ]_allvars
  /\ [](/\ yelpConsecutiveFails <= YelpMaxFails
        /\ \A p \in DOMAIN yelpLog :
             yelpLog[p] = "skipped" => yelpConsecutiveFails = YelpMaxFails)

\* Yelp has tripped and is skipped, Yellow Pages and Google Maps have failed
\* six times in a row and were still called, BBB has just succeeded.
C25_Witness ==
  /\ yelpConsecutiveFails = YelpMaxFails
  /\ yelpLog # <<>> /\ yelpLog[Len(yelpLog)] = "skipped"
  /\ srcFails["yp"] = YelpMaxFails + 1 /\ srcFails["gmaps"] = YelpMaxFails + 1
  /\ srcFails["bbb"] = 0

\* ---------------------------------------------------------------- C26
\* uniq as dedupe has it after the first x records of the list.
UniqAfter(x) == dedupe(SubSeq(list, 1, x))

BackfilledFields == { "phone", "address", "city", "website", "industry" }

\* Entity v is entity u after candidate b was merged into it: only empty
\* backfilled fields took b's value, everything else is as it was.
MergedFrom(u, v, b) ==
  /\ DOMAIN v = DOMAIN u
  /\ \A f \in DOMAIN u :
       v[f] # u[f] => f \in BackfilledFields /\ u[f] = "" /\ v[f] = b[f]

\* The source list t is list s after candidate b: b's source appended when
\* it was not there, nothing otherwise.
SourcesFrom(s, t, b) ==
  IF b.source \in Range(s) THEN t = s ELSE t = Append(s, b.source)

NoDuplicates(s) == \A x, y \in DOMAIN s : x # y => s[x] # s[y]

\* C26: each record of the list is either merged into the first entity it
\* matches, filling only that entity's empty backfilled fields and adding
\* its source once, or becomes a new entity with itself as only source; no
\* other entity changes, and every output entity has a non-empty source list
\* without duplicates.
C26_MergeFillsOnlyEmpty ==
  uniq # <<>> =>
    LET stage == [x \in 0..Len(list) |-> UniqAfter(x)] IN
    /\ \A x \in 0..(Len(list) - 1) :
         LET before == stage[x]
             after == stage[x + 1]
             b == list[x + 1]
             h == FirstMatch(before, b)
         IN IF h > 0
              THEN /\ Len(after) = Len(before)
                   /\ MergedFrom(before[h].biz, after[h].biz, b)
                   /\ after[h].biz.company_name = before[h].biz.company_name
                   /\ SourcesFrom(before[h].sources, after[h].sources, b)
                   /\ \A y \in DOMAIN before : y # h => after[y] = before[y]
              ELSE /\ Len(after) = Len(before) + 1
                   /\ \A y \in DOMAIN before : after[y] = before[y]
                   /\ after[Len(after)].biz = b
                   /\ after[Len(after)].sources = << b.source >>
    /\ stage[Len(list)] = uniq
    /\ \A y \in DOMAIN uniq : uniq[y].sources # <<>> /\ NoDuplicates(uniq[y].sources)

\* C26 witness: the Yelp sighting of Sunrise Bakery gave the Yellow Pages
\* entity its website and its source, kept phone and name; the Yellow Pages
\* sighting seen again added nothing.
C26_Witness ==
  /\ Len(list) = 3 /\ list[3] = list[1]
  /\ list[1] = Raw("yp", "Sunrise Bakery LLC", "(555) 111-2222", "Phoenix", "")
  /\ list[2] = Raw("yelp", "Sunrise Bakery", "5551112222", "Phoenix", "sunrisebakery.com")
  /\ Len(uniq) = 1
  /\ uniq[1].biz = [list[1] EXCEPT !.website = "sunrisebakery.com"]
  /\ uniq[1].sources = << "yp", "yelp" >>

\* ---------------------------------------------------------------- C27
\* The entities of uniq as a list of records again.
Entities == [y \in DOMAIN uniq |-> uniq[y].biz]

\* C27: the same record given twice ends in one entity, no two entities of
\* dedupe's output match under sameEntity, and dedupe of the output merges
\* nothing.
C27_DedupeFixpoint ==
  uniq # <<>> =>
    /\ \A x, y \in DOMAIN list :
         list[x] = list[y] => \E u \in DOMAIN uniq : {x, y} \subseteq uniq[u].from
    /\ \A x, y \in DOMAIN uniq : x # y => ~sameEntity(uniq[x].biz, uniq[y].biz)
    /\ Len(dedupe(Entities)) = Len(uniq)

\* ---------------------------------------------------------------- C28
\* C28: while the pages of one site are merged, a company fact that has a
\* non-empty value keeps that value.
C28_FactsNeverOverwritten ==
  [][\A key \in DOMAIN companyInfo :
       companyInfo[key] # "" =>
         key \in DOMAIN companyInfo' /\ companyInfo'[key] = companyInfo[key]]_allvars

\* ---------------------------------------------------------------- C29
\* C29: no page is fetched after five or more contacts with a first name
\* have been collected, the homepage's included.
C29_NoFetchAfterFive ==
  [][fetched' # fetched => Named(allContacts) < NamedEnough]_allvars

\* ---------------------------------------------------------------- C30
\* A step of the website loop of run(): a result page was handled.
WebStep ==
  /\ pc \in { "webDDG", "webGoogle" }
  /\ pc' \in { "webDDG", "webGoogle", "pageClose" }
  /\ pc' # pc \/ w' # w

\* The step ends the loop's turn for the entity.
EntityLeft == WebStep /\ pc' # "webGoogle"

\* An entity that has a website is not queried for, and a step of the
\* website loop changes no website that is set.
WebsiteKept ==
  /\ pc \in { "webDDG", "webGoogle" } => allBiz[needWebsite[w]].website = ""
  /\ WebStep => /\ DOMAIN allBiz' = DOMAIN allBiz
                /\ \A x \in DOMAIN allBiz :
                     allBiz[x].website # "" => allBiz'[x] = allBiz[x]

====
